---- MODULE Spec2Model ----
(***************************************************************************)
(* A model of psykit's StereoWindow (src/psykit/stereomode.py): the stereo *)
(* mode state machine, the per-frame protocol of setBuffer()/flip(), the   *)
(* viewport partition arithmetic, the cross-talk setter and the blend math *)
(* of the compositing shaders; of OffscreenWindow (src/psykit/offscreen.py)*)
(* and of set_polarizer_mode (src/psykit/vpixx.py).                        *)
(*                                                                         *)
(* Every operation of the window is one action.  The calls an operation    *)
(* makes into the host toolkit and into OpenGL are recorded, in order, in  *)
(* `events` (the calls of the most recent operation), so that an ordering  *)
(* property of one flip() is a state predicate of the state it leaves.     *)
(***************************************************************************)
EXTENDS Integers, Sequences, FiniteSets, TLC

(***************************************************************************)
(* Bounds of the model.                                                    *)
(***************************************************************************)
MaxW == 5        \* window widths 2..MaxW (odd and even)
MaxH == 3        \* window heights 2..MaxH
MaxStim == 1     \* at most this many auto-drawn stimuli registered
MaxFix == 1      \* fixation quantities range over -MaxFix..MaxFix half-pixels
Unit == 2        \* fixed point: the integer v stands for the number v / Unit
Over == 1        \* coefficients given reach Over below 0 and Over above 1.0
MaxVaos == 2     \* each OffscreenWindow is drawn at most this many times

(***************************************************************************)
(* Stereo modes (docstring of StereoWindow.__init__).                      *)
(***************************************************************************)
AnaglyphPlainModes == {"red/green", "green/red", "red/blue", "blue/red"}

AnaglyphAnticrossModes ==
    {"red/green-anticross", "green/red-anticross",
     "red/blue-anticross", "blue/red-anticross"}

AnaglyphModes == AnaglyphPlainModes \cup AnaglyphAnticrossModes

SplitAnticrossModes == {"top/bottom-anticross", "bottom/top-anticross"}

VerticalModes == {"top/bottom", "bottom/top"} \cup SplitAnticrossModes

HorizontalModes == {"left/right", "right/left"}

FixedModes == {"quad-buffered", "dual-head"}

Modes ==
    {"none", "sequential", "side-by-side-compressed"}
        \cup FixedModes \cup HorizontalModes \cup VerticalModes \cup AnaglyphModes

MutableModes == Modes \ FixedModes

\* A string that names no stereo mode: the constructor and the setter take
\* any value.
UnknownMode == "no-such-mode"

Eyes == {"left", "right"}

OtherEye(eye) == IF eye = "left" THEN "right" ELSE "left"

VARIABLES
    ctorMode,       \* the stereoMode argument the window was constructed with
    stereoMode,     \* self._stereoMode
    flipCallback,   \* TRUE iff self.flipCallback is not None
    size,           \* self.size, <<W, H>> in pixels
    toDraw,         \* self._toDraw: the number of auto-drawn stimuli
    fixation,       \* _fixationOffset, _fixationVergence, _fixationTilt (half-pixels)
    boundFbo,       \* the framebuffer bound in the primary GL context
    crossTalk,      \* self._crossTalk: row 1 the left eye, row 2 the right; R, G, B
    ctUniform,      \* the vec2 crossTalk uniform of each anaglyph-anticross program
    ctArg,          \* the value last assigned to win.crossTalk
    tex,            \* the colour each eye buffer holds where no stimulus covers it
    frame,          \* the colour each composite draw of the most recent operation wrote
    last,           \* the most recent operation: its name, argument, outcome
    events,         \* the toolkit / GL calls the most recent operation made
    waitBlanking,   \* self.waitBlanking of the primary window
    flipTime,       \* what the most recent flip() returned
    activeProgram,  \* the shader program in use ("none": glUseProgram(0))
    boundVao,       \* the vertex array bound ("none": glBindVertexArray(0))
    offTex,         \* what the framebuffer of each OffscreenWindow holds
    pixx,           \* the registers of the ProPixx device
    glTests,        \* whether GL_DEPTH_TEST / GL_STENCIL_TEST is enabled
    testFlags,      \* self.depthTest, self.stencilTest of the window
    eyeSize,        \* the pixel size each eye buffer was created with
    units,          \* self.units: the unit system of the window
    vertexArrays    \* the vertex arrays draw_texture has created for each OffscreenWindow

\* The application's flip callback is a hook for signalling external
\* hardware.  Flip is flip() with a callback that returns without touching
\* the window; FlipCalling is flip() with one that raises or assigns the
\* window's mode.

winVars == <<ctorMode, stereoMode, flipCallback, size, toDraw, fixation, boundFbo>>

ctVars == <<crossTalk, ctUniform, ctArg>>

glVars == <<activeProgram, boundVao, glTests>>

\* What the window is configured with and what it allocates once.
cfgVars == <<testFlags, eyeSize, units>>

\* What no operation of the window writes.
envVars == <<waitBlanking, offTex, vertexArrays, pixx, cfgVars>>

vars == <<winVars, ctVars, tex, frame, last, events, flipTime, glVars, envVars>>

(***************************************************************************)
(* Events: one record per call into OpenGL or the host toolkit.            *)
(*   bind       glBindFramebuffer; arg is "default", "LE" or "RE"          *)
(*   clear      Window.clearBuffer()                                       *)
(*   drawbuffer the base Window.setBuffer (hardware stereo back buffer)    *)
(*   stim       draw() of one auto-drawn stimulus; arg is its position in  *)
(*              the auto-draw list                                         *)
(*   viewport   glViewport(rect)                                           *)
(*   blip       the glDrawElements of _blipEyeBuffer; arg is the eye,      *)
(*              prog the shader program in use                             *)
(*   blueline   _drawBlueLine(eye)                                         *)
(*   swap       the base Window.flip; arg is "primary" or "secondary"      *)
(*   callback   flipCallback(eye)                                          *)
(*   current    _setCurrent(); arg is the window made current              *)
(***************************************************************************)
NoRect == <<0, 0, 0, 0>>

Ev(kind, arg) == [kind |-> kind, arg |-> arg, rect |-> NoRect, prog |-> ""]

EvViewport(x, y, w, h) ==
    [kind |-> "viewport", arg |-> "", rect |-> <<x, y, w, h>>, prog |-> ""]

EvBlip(eye, program) ==
    [kind |-> "blip", arg |-> eye, rect |-> NoRect, prog |-> program]

\* The events of a sequence whose kind is in `kinds`, in order.
OfKinds(evs, kinds) == SelectSeq(evs, LAMBDA e : e.kind \in kinds)

\* The number of events of a sequence that satisfy Test.
Count(evs, Test(_)) == Len(SelectSeq(evs, Test))

(***************************************************************************)
(* self._stereoShaders: the program compiled for each mode.  'none',       *)
(* 'quad-buffered' and unknown modes have no entry.                        *)
(***************************************************************************)
ShaderModes == Modes \ {"none", "quad-buffered"}

StereoShaders(mode) ==
    CASE mode \in AnaglyphModes -> mode
      [] mode \in {"sequential", "side-by-side-compressed", "dual-head"} -> "texture"
      [] mode \in HorizontalModes -> "centralX"
      [] mode \in {"top/bottom", "bottom/top"} -> "centralY"
      [] mode \in SplitAnticrossModes -> "compensated"

\* _blipEyeBuffer(eye): back to the default framebuffer, then one draw with
\* the current mode's program.
BlipEyeBuffer(mode, eye) ==
    <<Ev("bind", "default"), EvBlip(eye, StereoShaders(mode))>>

\* _drawBlueLine(eye), loc = 'bottom'.
DrawBlueLine(eye) == <<Ev("blueline", eye)>>

\* stim.draw() of the k-th stimulus of the auto-draw list.
EvStim(k) == Ev("stim", ToString(k))

\* A slip of _executeAutoDraw: the right eye buffer is left out.
RECURSIVE ExecuteAutoDraw_LeftOnly(_)
ExecuteAutoDraw_LeftOnly(n) ==
    IF n = 0 THEN <<>>
    ELSE ExecuteAutoDraw_LeftOnly(n - 1) \o <<Ev("bind", "LE"), EvStim(n)>>

\* _executeAutoDraw(stimList): each stimulus of the list, in order, is drawn
\* after setBuffer('left', clear=False) and again after
\* setBuffer('right', clear=False).
RECURSIVE ExecuteAutoDraw(_)
ExecuteAutoDraw(n) ==
    IF n = 0 THEN <<>>
    ELSE ExecuteAutoDraw(n - 1)
            \o <<Ev("bind", "LE"), EvStim(n), Ev("bind", "RE"), EvStim(n)>>

\* The base Window.flip of the host toolkit: draws what is registered for
\* auto-draw in the window it is called on, into the framebuffer that is
\* bound, then swaps that window's buffers.
RECURSIVE BaseAutoDraw(_)
BaseAutoDraw(n) ==
    IF n = 0 THEN <<>> ELSE BaseAutoDraw(n - 1) \o <<EvStim(n)>>

BaseFlip(n, output) == BaseAutoDraw(n) \o <<Ev("swap", output)>>

(***************************************************************************)
(* Viewport arithmetic of flip().  Fixation quantities are held in         *)
(* half-pixels; int() truncates toward zero.                               *)
(***************************************************************************)
Trunc(halves) == IF halves >= 0 THEN halves \div 2 ELSE -((-halves) \div 2)

\* A slip of the sign: the same for both eyes.
Sign_AlwaysPositive(eye) == 1

\* sign(eye): positive for the left eye, negative for the right eye
Sign(eye) == IF eye = "left" THEN 1 ELSE -1

\* A slip of the partition arithmetic: the half rounded up.
HalfOf_RoundedUp(n) == (n + 1) \div 2

\* self.size[0]//2 and self.size[1]//2
HalfOf(n) == n \div 2

\* 'left/right'.split('/')
SplitEyes(mode) == IF mode = "left/right" THEN <<"left", "right">> ELSE <<"right", "left">>

\* A slip of the top/bottom family: the left eye on top whatever the name.
TopEye_AlwaysLeft(mode) == "left"

\* eyes['top'] and eyes['bottom'] of the top/bottom family
TopEye(mode) == IF mode \in {"top/bottom", "top/bottom-anticross"} THEN "left" ELSE "right"

ZeroFixation == [offset |-> <<0, 0>>, vergence |-> 0, tilt |-> 0]

\* A slip of the partition arithmetic: the right half placed after a left
\* half of width W - W//2.
HorizontalViewport_CeilBase(mode, half, W, H, fix) ==
    LET eye  == SplitEyes(mode)[half]
        base == IF half = 1 THEN 0 ELSE 2 * (W - (W \div 2))
    IN  EvViewport(Trunc(base + fix.offset[1] + Sign(eye) * fix.vergence),
                   Trunc(fix.offset[2] + Sign(eye) * fix.tilt),
                   W \div 2, H)

\* The viewport of the left (half = 1) or right (half = 2) half in the
\* 'left/right' and 'right/left' modes.
HorizontalViewport(mode, half, W, H, fix) ==
    LET eye  == SplitEyes(mode)[half]
        base == IF half = 1 THEN 0 ELSE 2 * HalfOf(W)
    IN  EvViewport(Trunc(base + fix.offset[1] + Sign(eye) * fix.vergence),
                   Trunc(fix.offset[2] + Sign(eye) * fix.tilt),
                   HalfOf(W), H)

\* A slip of the left half of a sequential flip: the callback runs before
\* the swap it reports.
SequentialLeft_CallbackFirst(mode, cb) ==
    BlipEyeBuffer(mode, "left") \o DrawBlueLine("left")
      \o (IF cb THEN <<Ev("callback", "left")>> ELSE <<>>)
      \o BaseFlip(0, "primary")

\* The left half of a flip in 'sequential' mode: composite the left eye,
\* swap, then the callback tagged 'left'.  self._toDraw is empty here.
SequentialLeft(mode, cb) ==
    BlipEyeBuffer(mode, "left") \o DrawBlueLine("left")
      \o BaseFlip(0, "primary")
      \o (IF cb THEN <<Ev("callback", "left")>> ELSE <<>>)

\* A slip of the 'side-by-side-compressed' branch: the halves are shifted
\* by the fixation adjustment as those of 'left/right' are.
CompressedComposite_Shifted(mode, W, H, fix) ==
    <<HorizontalViewport("left/right", 1, W, H, fix)>> \o BlipEyeBuffer(mode, "left")
      \o <<HorizontalViewport("left/right", 2, W, H, fix)>> \o BlipEyeBuffer(mode, "right")

\* The 'side-by-side-compressed' branch of flip(): the left buffer into the
\* left half, the right buffer into the right half.
CompressedComposite(mode, W, H, fix) ==
    <<EvViewport(0, 0, HalfOf(W), H)>> \o BlipEyeBuffer(mode, "left")
      \o <<EvViewport(HalfOf(W), 0, HalfOf(W), H)>> \o BlipEyeBuffer(mode, "right")

\* The "Blip FBOs" branch of flip(), up to but excluding the final base flip.
Composite(mode, cb, W, H, fix) ==
    CASE mode = "side-by-side-compressed" -> CompressedComposite(mode, W, H, fix)
      [] mode \in HorizontalModes ->
            <<HorizontalViewport(mode, 1, W, H, fix)>>
              \o BlipEyeBuffer(mode, SplitEyes(mode)[1])
              \o <<HorizontalViewport(mode, 2, W, H, fix)>>
              \o BlipEyeBuffer(mode, SplitEyes(mode)[2])
      [] mode \in VerticalModes ->
            <<EvViewport(0, HalfOf(H), W, HalfOf(H))>>
              \o BlipEyeBuffer(mode, TopEye(mode))
              \o <<EvViewport(0, 0, W, HalfOf(H))>>
              \o BlipEyeBuffer(mode, OtherEye(TopEye(mode)))
      [] mode \in AnaglyphModes -> BlipEyeBuffer(mode, "both")
      [] mode = "sequential" ->
            SequentialLeft(mode, cb)
              \o BlipEyeBuffer(mode, "right") \o DrawBlueLine("right")
      [] mode = "dual-head" ->
            BlipEyeBuffer(mode, "left") \o DrawBlueLine("left")
      [] OTHER -> <<>>

\* A slip of the 'dual-head' branch: the primary context is not made current
\* again.
AfterSwap_NoRestore(mode, cb) ==
    CASE mode = "sequential" /\ cb -> <<Ev("callback", "right")>>
      [] mode = "dual-head" ->
            (IF cb THEN <<Ev("callback", "left")>> ELSE <<>>)
              \o <<Ev("current", "win2")>>
              \o BlipEyeBuffer(mode, "right") \o DrawBlueLine("right")
              \o BaseFlip(0, "secondary")
              \o (IF cb THEN <<Ev("callback", "right")>> ELSE <<>>)
      [] OTHER -> <<>>

\* A slip of the 'dual-head' branch: the right eye is signalled before the
\* second window is swapped.
AfterSwap_EarlyRightCallback(mode, cb) ==
    CASE mode = "sequential" /\ cb -> <<Ev("callback", "right")>>
      [] mode = "dual-head" ->
            (IF cb THEN <<Ev("callback", "left")>> ELSE <<>>)
              \o <<Ev("current", "win2")>>
              \o BlipEyeBuffer(mode, "right") \o DrawBlueLine("right")
              \o (IF cb THEN <<Ev("callback", "right")>> ELSE <<>>)
              \o BaseFlip(0, "secondary")
              \o <<Ev("current", "primary")>>
      [] OTHER -> <<>>

\* What flip() does after the final base flip.
AfterSwap(mode, cb) ==
    CASE mode = "sequential" /\ cb -> <<Ev("callback", "right")>>
      [] mode = "dual-head" ->
            (IF cb THEN <<Ev("callback", "left")>> ELSE <<>>)
              \o <<Ev("current", "win2")>>
              \o BlipEyeBuffer(mode, "right") \o DrawBlueLine("right")
              \o BaseFlip(0, "secondary")
              \o (IF cb THEN <<Ev("callback", "right")>> ELSE <<>>)
              \o <<Ev("current", "primary")>>
      [] OTHER -> <<>>

\* A slip of flip(): only 'none' bypasses the eye-buffer pipeline.
FlipEvents_NoQuadBypass(mode, cb, n, W, H, fix) ==
    IF mode = "none"
    THEN BaseFlip(n, "primary")
    ELSE ExecuteAutoDraw(n) \o Composite(mode, cb, W, H, fix)
            \o BaseFlip(0, "primary") \o AfterSwap(mode, cb)

\* flip(): every call it makes, in order.  In the FBO-based modes
\* self._toDraw is empty while the base flip runs.
FlipEvents(mode, cb, n, W, H, fix) ==
    IF mode \in {"none", "quad-buffered"}
    THEN BaseFlip(n, "primary")
    ELSE ExecuteAutoDraw(n) \o Composite(mode, cb, W, H, fix)
            \o BaseFlip(0, "primary") \o AfterSwap(mode, cb)


(***************************************************************************)
(* Floating-point values.  A number is held in fixed point ([nan |-> FALSE,*)
(* v |-> n] stands for n / Unit, so Unit stands for 1.0); NaN is a value   *)
(* of its own, as in numpy and on the GPU.                                 *)
(***************************************************************************)
Num(n) == [nan |-> FALSE, v |-> n]

NaN == [nan |-> TRUE, v |-> 0]

\* np.minimum and np.maximum hand a NaN operand on.
Minimum(x, y) ==
    IF x.nan \/ y.nan THEN NaN ELSE IF x.v <= y.v THEN x ELSE y

Maximum(x, y) ==
    IF x.nan \/ y.nan THEN NaN ELSE IF x.v >= y.v THEN x ELSE y

Channels == 1..3    \* R, G, B

ZeroMatrix == [e \in 1..2 |-> [c \in Channels |-> Num(0)]]

(***************************************************************************)
(* The crossTalk setter.  A value assigned is None, a 2-vector or a 2x3    *)
(* matrix: [shape, vec, mat], the field its shape does not use held at     *)
(* zero.                                                                   *)
(***************************************************************************)
ArgNone == [shape |-> "none", vec |-> <<Num(0), Num(0)>>, mat |-> ZeroMatrix]

ArgVec(a, b) == [shape |-> "vec2", vec |-> <<a, b>>, mat |-> ZeroMatrix]

ArgMat(m) == [shape |-> "mat23", vec |-> <<Num(0), Num(0)>>, mat |-> m]

\* np.maximum(0.0, np.minimum(1.0, row))
ClampRow(row) == [c \in Channels |-> Maximum(Num(0), Minimum(Num(Unit), row[c]))]

\* A slip of the broadcast: the 2-vector laid along the channels.
AsMatrix_Transposed(arg) ==
    CASE arg.shape = "none" -> ZeroMatrix
      [] arg.shape = "vec2" ->
            [e \in 1..2 |-> [c \in Channels |-> arg.vec[IF c = 1 THEN 1 ELSE 2]]]
      [] OTHER -> arg.mat

\* None becomes zeros; a 2-vector is broadcast across the channels,
\* np.ones([2,3]) * crossTalk.reshape(-1,1); a matrix is taken as it is.
AsMatrix(arg) ==
    CASE arg.shape = "none" -> ZeroMatrix
      [] arg.shape = "vec2" -> [e \in 1..2 |-> [c \in Channels |-> arg.vec[e]]]
      [] OTHER -> arg.mat

\* self._crossTalk once both rows are assigned.
Stored(arg) == [e \in 1..2 |-> ClampRow(AsMatrix(arg)[e])]

\* A slip of the setter: the G-channel coefficients are pushed.
PushedUniform_GreenChannel(ct) ==
    [m \in AnaglyphAnticrossModes |-> <<ct[1][2], ct[2][2]>>]

\* The uniform pushed into each anaglyph-anticross program: the R-channel
\* coefficients of the two eyes.
PushedUniform(ct) == [m \in AnaglyphAnticrossModes |-> <<ct[1][1], ct[2][1]>>]

\* The glUniform2f calls of the setter, in the order of its loop.
UniformEvents ==
    <<Ev("uniform2f", "red/green-anticross"), Ev("uniform2f", "green/red-anticross"),
      Ev("uniform2f", "red/blue-anticross"), Ev("uniform2f", "blue/red-anticross")>>

(***************************************************************************)
(* The fragment shaders.  A colour is <<r, g, b>>, each channel a number   *)
(* of 0..Unit (0.0 to 1.0); a colour written is held in units of           *)
(* 1 / (Unit * Unit), so that a coefficient times a channel is exact.  The *)
(* alpha channel is left out: no coefficient applies to it.                *)
(***************************************************************************)
Max0(n) == IF n >= 0 THEN n ELSE 0

\* texture2D(aTex, TexCoords).c
Plain(this) == Num(this * Unit)

\* A constant channel of an anaglyph output.
Dark == Num(0)

\* A slip of the subtraction: the sign of the leakage term.
Anti_Added(this, k, other) ==
    IF k.nan THEN NaN ELSE Num(Max0(this * Unit + k.v * other))

\* max(this - k * other, 0.0)
Anti(this, k, other) ==
    IF k.nan THEN NaN ELSE Num(Max0(this * Unit - k.v * other))

\* fragTexture_src
FragTexture(this) == [c \in Channels |-> Plain(this[c])]

\* fragCompensated_src
FragCompensated(this, other, ct) == [c \in Channels |-> Anti(this[c], ct[c], other[c])]

\* fragAnaglyph_src[mode]; le and re are the textures on units 0 and 1, u
\* the program's vec2 crossTalk uniform.
FragAnaglyph(mode, le, re, u) ==
    CASE mode = "red/green" -> <<Plain(le[1]), Plain(re[2]), Dark>>
      [] mode = "green/red" -> <<Plain(re[1]), Plain(le[2]), Dark>>
      [] mode = "red/blue"  -> <<Plain(le[1]), Dark, Plain(re[3])>>
      [] mode = "blue/red"  -> <<Plain(re[1]), Dark, Plain(le[3])>>
      [] mode = "red/green-anticross" ->
            <<Anti(le[1], u[1], re[2]), Anti(re[2], u[2], le[1]), Dark>>
      [] mode = "green/red-anticross" ->
            <<Anti(re[1], u[2], le[2]), Anti(le[2], u[1], re[1]), Dark>>
      [] mode = "red/blue-anticross" ->
            <<Anti(le[1], u[1], re[3]), Dark, Anti(re[3], u[2], le[1])>>
      [] mode = "blue/red-anticross" ->
            <<Anti(re[1], u[2], le[3]), Dark, Anti(le[3], u[1], re[1])>>

\* mode.endswith('anticross')
EndsWithAnticross(mode) == mode \in AnaglyphAnticrossModes \cup SplitAnticrossModes

\* What a draw binds when it sets no texture role and no vec3 uniform.
NoBindings == [this |-> "", other |-> "", uniform |-> <<Num(0), Num(0), Num(0)>>]

\* A slip of the right eye's branch: the left eye's row is passed.
Bindings_LeftRow(eye, ct) == [this |-> eye, other |-> OtherEye(eye), uniform |-> ct[1]]

\* The 'anticross' branches of _blipEyeBuffer(eye), eye 'left' or 'right':
\* the eye's texture as textureThis, the other eye's as textureOther, and
\* the eye's row of self._crossTalk as the vec3 crossTalk uniform.
Bindings(eye, ct) ==
    [this |-> eye, other |-> OtherEye(eye), uniform |-> ct[IF eye = "left" THEN 1 ELSE 2]]

\* What _blipEyeBuffer(eye) binds in `mode`.
BlipBindings(mode, eye, ct) ==
    IF eye \in Eyes /\ EndsWithAnticross(mode) THEN Bindings(eye, ct) ELSE NoBindings

\* The colour one _blipEyeBuffer(eye) writes: the textures it binds to
\* units 0 and 1, the uniform it sets, and the mode's fragment shader.
BlipColour(mode, eye, t, ct, uniforms) ==
    CASE eye = "both" -> FragAnaglyph(mode, t.left, t.right, uniforms[mode])
      [] EndsWithAnticross(mode) ->
            LET b == BlipBindings(mode, eye, ct)
            IN  FragCompensated(t[b.this], t[b.other], b.uniform)
      [] eye = "left" -> FragTexture(t.left)
      [] OTHER -> FragTexture(t.right)

\* What the composite draws among `evs` wrote, in order.
FrameOf(evs, mode, t, ct, uniforms) ==
    LET blips == OfKinds(evs, {"blip"})
    IN  [i \in 1..Len(blips) |->
            [eye |-> blips[i].arg, rgb |-> BlipColour(mode, blips[i].arg, t, ct, uniforms),
             bound |-> BlipBindings(mode, blips[i].arg, ct)]]

\* The window's background colour: what clearBuffer() fills a buffer with.
Background == <<1, 1, 1>>

Colours == (1..Unit) \X (1..Unit) \X (1..Unit)


(***************************************************************************)
(* Operations of the window.                                               *)
(***************************************************************************)
Sizes == (2..MaxW) \X (2..MaxH)

FixValues == (-MaxFix)..MaxFix

\* flip() has not returned a time: None, or no flip() yet.
NoTime == [none |-> TRUE, swap |-> 0]

\* The OffscreenWindow objects of the application.
Surfaces == {"S1", "S2"}

\* Depth and stencil test both off: the flags of a window by default.
NoTests == [depth |-> FALSE, stencil |-> FALSE]

TestFlags == [depth : BOOLEAN, stencil : BOOLEAN]

\* The size of a buffer that was not created.
NoSize == <<0, 0>>

\* A slip of the constructor: the eye buffers get the size of one half.
CreateFramebuffer_HalfWidth(sz) == <<sz[1] \div 2, sz[2]>>

\* gltools.create_framebuffer(size): the texture and the renderbuffer
\* attached to the new framebuffer have the size given.
CreateFramebuffer(sz) == sz

\* self._fboLE, self._fboRE as __init__ creates them; the 'quad-buffered'
\* branch returns before it creates any.
EyeBuffers(mode, sz) ==
    IF mode = "quad-buffered" THEN [e \in Eyes |-> NoSize]
    ELSE [e \in Eyes |-> CreateFramebuffer(sz)]

\* The device registers as reset_propixx() sets them by default.
OrdinaryRegisters ==
    [RearProjectionMode |-> TRUE, CeilingMountMode |-> FALSE,
     DlpSequencerProgram |-> "RGB", VideoMode |-> "C24",
     VideoVesaBlueline |-> FALSE, VesaFreeRun |-> FALSE]

Outcome(op, arg, err, before) ==
    [op |-> op, arg |-> arg, err |-> err, before |-> before]

\* The framebuffer bound once `evs` have run, `cur` being bound before.
RECURSIVE BoundAfter(_, _)
BoundAfter(evs, cur) ==
    IF evs = <<>> THEN cur
    ELSE BoundAfter(Tail(evs), IF Head(evs).kind = "bind" THEN Head(evs).arg ELSE cur)

\* StereoWindow.__init__ with stereoMode = mode, a window size, and
\* flipCallback given (TRUE) or not; crossTalk = None, no stimulus registered.
\* `textures` is what the eye buffers hold: the background when nothing has
\* been drawn, or what the application filled them with.
\* The 'quad-buffered' branch returns before flipCallback is assigned.
InitWindow(modes, sizes, callbacks, textures) ==
    /\ ctorMode \in modes
    /\ stereoMode = ctorMode
    /\ flipCallback \in (IF ctorMode = "quad-buffered" THEN {FALSE} ELSE callbacks)
    /\ size \in sizes
    /\ toDraw = 0
    /\ fixation = ZeroFixation
    /\ boundFbo = "default"
    /\ crossTalk = ZeroMatrix
    /\ ctUniform = PushedUniform(ZeroMatrix)
    /\ ctArg = ArgNone
    /\ tex \in textures
    /\ frame = <<>>
    /\ last = Outcome("init", ctorMode, "", ctorMode)
    /\ events = <<>>

\* What surrounds the window once it is constructed: waitBlanking as the
\* application configured it, no program in use, no vertex array bound, and
\* the device in its ordinary operating mode.
\* The tests are enabled as the window's flags say, and the eye buffers
\* have the size create_framebuffer(self.size) gave them.
InitCtx(blankings, flagSets, unitSystems) ==
    /\ waitBlanking \in blankings
    /\ flipTime = NoTime
    /\ activeProgram = "none"
    /\ boundVao = "none"
    /\ pixx = OrdinaryRegisters
    /\ testFlags \in flagSets
    /\ glTests = testFlags
    /\ eyeSize = EyeBuffers(ctorMode, size)
    /\ units \in unitSystems
    /\ vertexArrays = [s \in Surfaces |-> 0]

\* The same for a window with neither test and pixels as its units.
InitGl(blankings) == InitCtx(blankings, {NoTests}, {"pix"})

\* The same for an application that draws into no OffscreenWindow.
InitEnv(blankings) ==
    /\ InitGl(blankings)
    /\ offTex = [s \in Surfaces |-> Background]

\* Slips of the setter's guard.
SetterRaises_NoneFixed(current, requested) ==
    \/ requested = "quad-buffered" \/ current = "quad-buffered"
    \/ requested = "dual-head" \/ current = "dual-head"
    \/ current = "none"

SetterRaises_QuadOnly(current, requested) ==
    requested = "quad-buffered" \/ current = "quad-buffered"

SetterRaises_RequestedOnly(current, requested) ==
    requested = "quad-buffered" \/ requested = "dual-head"

\* The guard of the stereoMode setter: the two raise branches.
SetterRaises(current, requested) ==
    \/ requested = "quad-buffered" \/ current = "quad-buffered"
    \/ requested = "dual-head" \/ current = "dual-head"

\* win.stereoMode = mode
SetStereoMode(mode) ==
    /\ stereoMode' = IF SetterRaises(stereoMode, mode) THEN stereoMode ELSE mode
    /\ last' = Outcome("stereoMode", mode,
                       IF SetterRaises(stereoMode, mode) THEN "ValueError" ELSE "",
                       stereoMode)
    /\ events' = <<>>
    /\ UNCHANGED <<ctorMode, flipCallback, size, toDraw, fixation, boundFbo>>
    /\ frame' = <<>>
    /\ UNCHANGED <<ctVars, tex>>
    /\ flipTime' = NoTime
    /\ UNCHANGED <<glVars, envVars>>

\* The calls of setBuffer(buffer, clear) in each mode; <<>> where it raises.
SetBufferRaises(mode, buffer) ==
    mode \notin {"none", "quad-buffered"} /\ buffer \notin Eyes

\* A slip of the FBO-based branch: whatever the selector, the left eye
\* buffer is bound.
SetBufferEvents_AlwaysLeft(mode, buffer, clear) ==
    CASE mode = "quad-buffered" ->
            <<Ev("drawbuffer", buffer)>> \o (IF clear THEN <<Ev("clear", "")>> ELSE <<>>)
      [] mode = "none" -> <<Ev("bind", "default")>>
      [] SetBufferRaises(mode, buffer) -> <<>>
      [] OTHER -> <<Ev("bind", "LE")>> \o (IF clear THEN <<Ev("clear", "")>> ELSE <<>>)

\* The calls of setBuffer(buffer, clear) in each mode.
SetBufferEvents(mode, buffer, clear) ==
    CASE mode = "quad-buffered" ->
            <<Ev("drawbuffer", buffer)>> \o (IF clear THEN <<Ev("clear", "")>> ELSE <<>>)
      [] mode = "none" -> <<Ev("bind", "default")>>
      [] SetBufferRaises(mode, buffer) -> <<>>
      [] OTHER ->
            <<Ev("bind", IF buffer = "left" THEN "LE" ELSE "RE")>>
              \o (IF clear THEN <<Ev("clear", "")>> ELSE <<>>)

\* The eye buffers once `evs` have run: clearBuffer() fills the eye buffer
\* that is bound.
RECURSIVE TexAfter(_, _, _)
TexAfter(evs, bound, t) ==
    IF evs = <<>> THEN t
    ELSE LET e == Head(evs)
             b == IF e.kind = "bind" THEN e.arg ELSE bound
         IN  TexAfter(Tail(evs), b,
                 CASE e.kind = "clear" /\ b = "LE" -> [t EXCEPT !.left = Background]
                   [] e.kind = "clear" /\ b = "RE" -> [t EXCEPT !.right = Background]
                   [] OTHER -> t)

\* The tail of setBuffer() in an FBO-based mode: glEnable for each test
\* whose flag is set, and no call for a test whose flag is not.
EnabledPerFlags(cur, flags) ==
    [depth |-> cur.depth \/ flags.depth, stencil |-> cur.stencil \/ flags.stencil]

\* The modes and selectors with which setBuffer() reaches that tail.
SetBufferEnables(mode, buffer) ==
    mode \notin {"none", "quad-buffered"} /\ ~SetBufferRaises(mode, buffer)

\* win.setBuffer(buffer, clear)
SetBuffer(buffer, clear) ==
    /\ events' = SetBufferEvents(stereoMode, buffer, clear)
    /\ boundFbo' = BoundAfter(events', boundFbo)
    /\ tex' = TexAfter(events', boundFbo, tex)
    /\ frame' = <<>>
    /\ UNCHANGED ctVars
    /\ last' = Outcome("setBuffer", buffer,
                       IF SetBufferRaises(stereoMode, buffer) THEN "ValueError" ELSE "",
                       stereoMode)
    /\ UNCHANGED <<ctorMode, stereoMode, flipCallback, size, toDraw, fixation>>
    /\ flipTime' = NoTime
    /\ glTests' = IF SetBufferEnables(stereoMode, buffer)
                  THEN EnabledPerFlags(glTests, testFlags) ELSE glTests
    /\ UNCHANGED <<activeProgram, boundVao, envVars>>

\* A slip of the second window's construction: it waits like the first.
Blocks_BothOutputs(output, blanking) == blanking

\* Whether a base flip of `output` blocks until the vertical blank: the
\* primary window as configured, the second window never (it is constructed
\* with waitBlanking=False).
Blocks(output, blanking) == IF output = "primary" THEN blanking ELSE FALSE

\* The value flip() returns: what the last `flipTime = super().flip()` gave.
\* The base flip returns the completion time of its swap when the window
\* waits for the vertical blank and None otherwise; the swaps whose result
\* flip() does not keep are the first of 'sequential' (flipTime0) and that
\* of the second window.
FlipTime(evs, blanking) ==
    IF ~blanking THEN NoTime
    ELSE [none |-> FALSE,
          swap |-> CHOOSE i \in 1..Len(evs) :
                      /\ evs[i].kind = "swap" /\ evs[i].arg = "primary"
                      /\ \A j \in (i + 1)..Len(evs) :
                            ~(evs[j].kind = "swap" /\ evs[j].arg = "primary")]

\* A slip of flip(): the backup is not put back.
ToDrawAfterFlip_NotRestored(mode, registered) ==
    IF mode \in {"none", "quad-buffered"} THEN registered ELSE 0

\* self._toDraw when flip() returns: untouched in 'none' and
\* 'quad-buffered'; emptied and then set back to the backup otherwise.
ToDrawAfterFlip(mode, registered) ==
    IF mode \in {"none", "quad-buffered"} THEN registered
    ELSE LET backup == registered IN backup

\* A slip of _blipEyeBuffer: the program and the vertex array it used are
\* not released.
ResetByBlip_StaysBound(evs, cur) ==
    IF \E i \in 1..Len(evs) : evs[i].kind = "blip" THEN "screen" ELSE cur

\* The program in use / the vertex array bound once `evs` have run: every
\* _blipEyeBuffer ends with glBindVertexArray(0) and glUseProgram(0).
ResetByBlip(evs, cur) ==
    IF \E i \in 1..Len(evs) : evs[i].kind = "blip" THEN "none" ELSE cur

\* The tests once `evs` have run: _blipEyeBuffer and draw_texture disable
\* both, and enable each whose flag is set once they have drawn.
TestsAfter(evs, cur, flags) ==
    IF \E i \in 1..Len(evs) : evs[i].kind \in {"blip", "draw"} THEN flags ELSE cur

\* win.flip()
Flip ==
    /\ events' = FlipEvents(stereoMode, flipCallback, toDraw, size[1], size[2], fixation)
    /\ boundFbo' = BoundAfter(events', boundFbo)
    /\ frame' = FrameOf(events', stereoMode, tex, crossTalk, ctUniform)
    /\ flipTime' = FlipTime(events', waitBlanking)
    /\ toDraw' = ToDrawAfterFlip(stereoMode, toDraw)
    /\ activeProgram' = ResetByBlip(events', activeProgram)
    /\ boundVao' = ResetByBlip(events', boundVao)
    /\ glTests' = TestsAfter(events', glTests, testFlags)
    /\ last' = Outcome("flip", "", "", stereoMode)
    /\ UNCHANGED <<ctorMode, stereoMode, flipCallback, size, fixation>>
    /\ UNCHANGED <<ctVars, tex, envVars>>

\* win.flipCallback = func, or = None
SetFlipCallback(given) ==
    /\ flipCallback' = given
    /\ last' = Outcome("flipCallback", "", "", stereoMode)
    /\ events' = <<>>
    /\ UNCHANGED <<ctorMode, stereoMode, size, toDraw, fixation, boundFbo>>
    /\ frame' = <<>>
    /\ UNCHANGED <<ctVars, tex>>
    /\ flipTime' = NoTime
    /\ UNCHANGED <<glVars, envVars>>

\* A stimulus is registered for auto-draw (delta = 1) or withdrawn (delta = -1).
SetAutoDraw(delta) ==
    /\ toDraw + delta \in 0..MaxStim
    /\ toDraw' = toDraw + delta
    /\ last' = Outcome("autoDraw", "", "", stereoMode)
    /\ events' = <<>>
    /\ UNCHANGED <<ctorMode, stereoMode, flipCallback, size, fixation, boundFbo>>
    /\ frame' = <<>>
    /\ UNCHANGED <<ctVars, tex>>
    /\ flipTime' = NoTime
    /\ UNCHANGED <<glVars, envVars>>

\* Numbers of the unit conversion: the fraction n / d, d positive.
Rat(n, d) == [n |-> n, d |-> d]

RMul(a, b) == Rat(a.n * b.n, a.d * b.d)

RDiv(a, b) == Rat(a.n * b.d, a.d * b.n)

RLeq(a, b) == a.n * b.d <= b.n * a.d

RDistance(a, b) ==
    LET diff == a.n * b.d - b.n * a.d
    IN  Rat(IF diff >= 0 THEN diff ELSE -diff, a.d * b.d)

\* The unit systems whose scale follows from the window alone.
UnitSystems == {"pix", "norm", "height"}

\* Pixels per unit along an axis (1 horizontal, 2 vertical) in the host
\* toolkit's layout.Vector: 'norm' spans the window from -1 to 1, 'height'
\* is relative to the window's height.
PixPerUnit(u, axis, sz) ==
    CASE u = "pix" -> Rat(1, 1)
      [] u = "norm" -> Rat(sz[axis], 2)
      [] u = "height" -> Rat(sz[2], 1)

\* layout.Vector(value, self.units, self).pix
ToPix(u, axis, sz, v) == RMul(v, PixPerUnit(u, axis, sz))

\* A slip of the getters: the pixel value is handed out as it is stored.
FromPix_Unconverted(u, axis, sz, p) == p

\* getattr(layout.Vector(value, 'pix', self), self.units)
FromPix(u, axis, sz, p) == RDiv(p, PixPerUnit(u, axis, sz))

\* A pixel quantity as the model keeps it: in half-pixels, rounded down.
Halves(r) == (2 * r.n) \div r.d

\* win.fixationOffset, read
FixationOffset(u, sz, fix) ==
    [axis \in 1..2 |-> FromPix(u, axis, sz, Rat(fix.offset[axis], 2))]

\* The assignments to win.fixationOffset, win.fixationVergence and
\* win.fixationTilt store `fix`, the value given converted to pixels.
SetFixation(fix) ==
    /\ fixation' = fix
    /\ last' = Outcome("fixation", "", "", stereoMode)
    /\ events' = <<>>
    /\ UNCHANGED <<ctorMode, stereoMode, flipCallback, size, toDraw, boundFbo>>
    /\ frame' = <<>>
    /\ UNCHANGED <<ctVars, tex>>
    /\ flipTime' = NoTime
    /\ UNCHANGED <<glVars, envVars>>

\* win.crossTalk = value.  On a window constructed in 'quad-buffered' mode
\* there is no self._stereoShaders: the loop raises once both rows are stored.
SetCrossTalk(arg) ==
    /\ crossTalk' = Stored(arg)
    /\ ctUniform' = IF ctorMode = "quad-buffered" THEN ctUniform
                    ELSE PushedUniform(crossTalk')
    /\ ctArg' = arg
    /\ events' = IF ctorMode = "quad-buffered" THEN <<>> ELSE UniformEvents
    /\ last' = Outcome("crossTalk", arg.shape,
                       IF ctorMode = "quad-buffered" THEN "AttributeError" ELSE "",
                       stereoMode)
    /\ frame' = <<>>
    /\ flipTime' = NoTime
    /\ activeProgram' = IF ctorMode = "quad-buffered" THEN activeProgram ELSE "none"
    /\ UNCHANGED <<winVars, tex, boundVao, glTests, envVars>>

(***************************************************************************)
(* OffscreenWindow of src/psykit/offscreen.py: bind(), unbind(), draw().   *)
(*   bind       glBindFramebuffer; arg is also the name of a surface       *)
(*   newvao     create_vertex_array(): a vertex array made for one draw    *)
(*   program    glUseProgram; arg is the program, "none" for 0             *)
(*   vao        glBindVertexArray; arg is the array, "none" for 0          *)
(*   draw       the glDrawElements of draw_texture; arg is the surface     *)
(*              whose texture is drawn                                     *)
(***************************************************************************)
BindOp(clear) == IF clear THEN "bind(clear=True)" ELSE "bind(clear=False)"

\* A slip of bind(): the framebuffer is cleared whatever `clear` is.
OffBindEvents_AlwaysClears(s, clear) == <<Ev("bind", s), Ev("clear", "")>>

\* The calls of bind(clear).
OffBindEvents(s, clear) ==
    <<Ev("bind", s)>> \o (IF clear THEN <<Ev("clear", "")>> ELSE <<>>)

\* The calls of draw_texture(win, tex) with its default arguments.
DrawTextureEvents(s) ==
    <<Ev("newvao", "quad"), Ev("program", "texture"), Ev("vao", "quad"),
      Ev("draw", s), Ev("vao", "none"), Ev("program", "none")>>

\* The argument of the last call of kind `kind` among `evs`, `cur` if none.
RECURSIVE LastArg(_, _, _)
LastArg(evs, kind, cur) ==
    IF evs = <<>> THEN cur
    ELSE LastArg(Tail(evs), kind, IF Head(evs).kind = kind THEN Head(evs).arg ELSE cur)

\* The offscreen framebuffers once `evs` have run: clearBuffer() fills the
\* framebuffer that is bound, and a full-coverage opaque draw of a surface's
\* texture puts its colour there.
RECURSIVE OffTexAfter(_, _, _)
OffTexAfter(evs, bound, t) ==
    IF evs = <<>> THEN t
    ELSE LET e == Head(evs)
             b == IF e.kind = "bind" THEN e.arg ELSE bound
         IN  OffTexAfter(Tail(evs), b,
                 CASE e.kind = "clear" /\ b \in Surfaces -> [t EXCEPT ![b] = Background]
                   [] e.kind = "draw" /\ b \in Surfaces -> [t EXCEPT ![b] = t[e.arg]]
                   [] OTHER -> t)

\* The eye buffers once an offscreen draw of colour `c` has run.
TexDrawn(bound, t, c) ==
    CASE bound = "LE" -> [t EXCEPT !.left = c]
      [] bound = "RE" -> [t EXCEPT !.right = c]
      [] OTHER -> t

\* surface.bind(clear)
OffBind(s, clear) ==
    /\ events' = OffBindEvents(s, clear)
    /\ boundFbo' = BoundAfter(events', boundFbo)
    /\ offTex' = OffTexAfter(events', boundFbo, offTex)
    /\ last' = Outcome(BindOp(clear), s, "", stereoMode)
    /\ frame' = <<>>
    /\ flipTime' = NoTime
    /\ UNCHANGED <<ctorMode, stereoMode, flipCallback, size, toDraw, fixation>>
    /\ UNCHANGED <<ctVars, tex, glVars, waitBlanking, vertexArrays, pixx, cfgVars>>

\* surface.unbind()
OffUnbind(s) ==
    /\ events' = <<Ev("bind", "default")>>
    /\ boundFbo' = BoundAfter(events', boundFbo)
    /\ last' = Outcome("unbind", s, "", stereoMode)
    /\ frame' = <<>>
    /\ flipTime' = NoTime
    /\ UNCHANGED <<ctorMode, stereoMode, flipCallback, size, toDraw, fixation>>
    /\ UNCHANGED <<ctVars, tex, glVars, envVars>>

\* gltools.create_vertex_array(vertices, attributes, indices)
IsNewVao(e) == e.kind = "newvao"

\* surface.draw(): draw_texture(self.win, self._tex).  The vertex array it
\* creates is not deleted and not kept for the next call.
OffDraw(s) ==
    /\ vertexArrays[s] < MaxVaos
    /\ events' = DrawTextureEvents(s)
    /\ vertexArrays' = [vertexArrays EXCEPT ![s] = @ + Count(events', IsNewVao)]
    /\ activeProgram' = LastArg(events', "program", activeProgram)
    /\ boundVao' = LastArg(events', "vao", boundVao)
    /\ boundFbo' = BoundAfter(events', boundFbo)
    /\ offTex' = OffTexAfter(events', boundFbo, offTex)
    /\ tex' = TexDrawn(boundFbo, tex, offTex[s])
    /\ glTests' = TestsAfter(events', glTests, testFlags)
    /\ last' = Outcome("draw", s, "", stereoMode)
    /\ frame' = <<>>
    /\ flipTime' = NoTime
    /\ UNCHANGED <<ctorMode, stereoMode, flipCallback, size, toDraw, fixation>>
    /\ UNCHANGED <<ctVars, waitBlanking, pixx, cfgVars>>

\* The application's own GL calls: a program of its own put in use, a
\* vertex array of its own bound (or 0 for either).
AppUseProgram(p) ==
    /\ activeProgram' = p
    /\ events' = <<Ev("program", p)>>
    /\ last' = Outcome("glUseProgram", p, "", stereoMode)
    /\ frame' = <<>>
    /\ flipTime' = NoTime
    /\ UNCHANGED <<winVars, ctVars, tex, boundVao, glTests, envVars>>

AppBindVertexArray(v) ==
    /\ boundVao' = v
    /\ events' = <<Ev("vao", v)>>
    /\ last' = Outcome("glBindVertexArray", v, "", stereoMode)
    /\ frame' = <<>>
    /\ flipTime' = NoTime
    /\ UNCHANGED <<winVars, ctVars, tex, activeProgram, glTests, envVars>>

\* glEnable / glDisable of one of the two tests by the application (a
\* stimulus of its own that needs the test, or no longer needs it).
AppSetTest(test, on) ==
    /\ glTests' = [glTests EXCEPT ![test] = on]
    /\ events' = <<Ev(IF on THEN "enable" ELSE "disable", test)>>
    /\ last' = Outcome(IF on THEN "glEnable" ELSE "glDisable", test, "", stereoMode)
    /\ frame' = <<>>
    /\ flipTime' = NoTime
    /\ UNCHANGED <<winVars, ctVars, tex, activeProgram, boundVao, envVars>>

(***************************************************************************)
(* set_polarizer_mode(win, pixx, mode) of src/psykit/vpixx.py: a delivery  *)
(* mode name selects the window's stereo mode and the device registers.    *)
(*   setDlpSequencerProgram, setVideoVesaBlueline, setVesaFreeRun          *)
(*              the register writes; arg is the value written              *)
(*   updateRegisterCache                                                   *)
(*              the commit of the writes to the device                     *)
(***************************************************************************)
\* The stereo mode each branch assigns to the window.
WindowModeFor(mode) ==
    CASE mode = "none" -> "none"
      [] mode \in {"blueline", "freerun"} -> "sequential"
      [] mode = "RB3D" -> "red/blue-anticross"
      [] mode = "double-height" -> "top/bottom-anticross"
      [] OTHER -> mode

\* A slip of the 'freerun' branch: blue-line sync is left on as well.
RegistersFor_FreeRunWithBlueline(mode) ==
    [DlpSequencerProgram |-> IF mode = "RB3D" THEN "RB3D" ELSE "RGB",
     VideoVesaBlueline |-> (mode \in {"blueline", "freerun"}),
     VesaFreeRun |-> (mode = "freerun")]

\* The registers each branch writes.
RegistersFor(mode) ==
    [DlpSequencerProgram |-> IF mode = "RB3D" THEN "RB3D" ELSE "RGB",
     VideoVesaBlueline |-> (mode = "blueline"),
     VesaFreeRun |-> (mode = "freerun")]

BoolText(b) == IF b THEN "True" ELSE "False"

\* The registers once the fields of `written` are written over `regs`.
Overwritten(regs, written) ==
    [f \in DOMAIN regs |-> IF f \in DOMAIN written THEN written[f] ELSE regs[f]]

\* A slip of a branch: the commit is issued before the last write.
DeviceEvents_CommitEarly(regs) ==
    <<Ev("setDlpSequencerProgram", regs.DlpSequencerProgram),
      Ev("setVideoVesaBlueline", BoolText(regs.VideoVesaBlueline)),
      Ev("updateRegisterCache", ""),
      Ev("setVesaFreeRun", BoolText(regs.VesaFreeRun))>>

\* The device calls of a branch, in order.
DeviceEvents(regs) ==
    <<Ev("setDlpSequencerProgram", regs.DlpSequencerProgram),
      Ev("setVideoVesaBlueline", BoolText(regs.VideoVesaBlueline)),
      Ev("setVesaFreeRun", BoolText(regs.VesaFreeRun)),
      Ev("updateRegisterCache", "")>>

\* A slip of the prerequisite: a square output passes.
HeightFails_SquarePasses(mode, sz) == mode = "double-height" /\ ~(sz[2] >= sz[1])

\* 'double-height' on an output that is not taller than wide.
HeightFails(mode, sz) == mode = "double-height" /\ ~(sz[2] > sz[1])

\* set_polarizer_mode(win, pixx, mode).  The prerequisite is tested first,
\* the window's mode is assigned next (the setter may raise), and the
\* device calls follow.
SetPolarizerMode(mode) ==
    LET target == WindowModeFor(mode)
        fails == HeightFails(mode, size) \/ SetterRaises(stereoMode, target)
    IN  /\ stereoMode' = IF fails THEN stereoMode ELSE target
        /\ pixx' = IF fails THEN pixx ELSE Overwritten(pixx, RegistersFor(mode))
        /\ events' = IF fails THEN <<>> ELSE DeviceEvents(RegistersFor(mode))
        /\ last' = Outcome("set_polarizer_mode", mode,
                           IF fails THEN "ValueError" ELSE "", stereoMode)
        /\ frame' = <<>>
        /\ flipTime' = NoTime
        /\ UNCHANGED <<ctorMode, flipCallback, size, toDraw, fixation, boundFbo>>
        /\ UNCHANGED <<ctVars, tex, glVars, waitBlanking, offTex, vertexArrays, cfgVars>>

\* The config argument of reset_propixx: None, a dict, or the path of a
\* json file that holds a dict (and that can be read, or cannot).
ResetConfig(kind, readable, values) ==
    [kind |-> kind, readable |-> readable, values |-> values]

NoOverride == [f \in {} |-> FALSE]

ResetConfigs ==
    {ResetConfig("None", TRUE, NoOverride),
     ResetConfig("dict", TRUE, [RearProjectionMode |-> FALSE]),
     ResetConfig("dict", TRUE, [DlpSequencerProgram |-> "RB3D", VideoVesaBlueline |-> TRUE]),
     ResetConfig("file", TRUE, [VideoMode |-> "L48", VesaFreeRun |-> TRUE]),
     ResetConfig("file", FALSE, NoOverride)}

\* open(config) / json.load raises: no such file, or not json.
ResetRaises(config) == config.kind = "file" /\ ~config.readable

\* cfg once the defaults are updated from the config.
ResetRegisters(config) == Overwritten(OrdinaryRegisters, config.values)

\* The device calls of reset_propixx, in order.
ResetEvents(regs) ==
    <<Ev("setRearProjectionMode", BoolText(regs.RearProjectionMode)),
      Ev("setCeilingMountMode", BoolText(regs.CeilingMountMode)),
      Ev("setDlpSequencerProgram", regs.DlpSequencerProgram),
      Ev("setVideoMode", regs.VideoMode),
      Ev("setVideoVesaBlueline", BoolText(regs.VideoVesaBlueline)),
      Ev("setVesaFreeRun", BoolText(regs.VesaFreeRun)),
      Ev("updateRegisterCache", "")>>

\* reset_propixx(pixx, config)
ResetPropixx(config) ==
    /\ pixx' = IF ResetRaises(config) THEN pixx ELSE ResetRegisters(config)
    /\ events' = IF ResetRaises(config) THEN <<>> ELSE ResetEvents(ResetRegisters(config))
    /\ last' = Outcome("reset_propixx", config.kind,
                       IF ResetRaises(config) THEN "OSError" ELSE "", stereoMode)
    /\ frame' = <<>>
    /\ flipTime' = NoTime
    /\ UNCHANGED <<winVars, ctVars, tex, glVars, waitBlanking, offTex, vertexArrays, cfgVars>>

\* win.fixationOffset = [x, y], in the window's units
SetFixationOffset(x, y) ==
    SetFixation([fixation EXCEPT !.offset = <<Halves(ToPix(units, 1, size, x)),
                                              Halves(ToPix(units, 2, size, y))>>])

\* win.fixationVergence = v: the horizontal component of [v, 0]
SetFixationVergence(v) ==
    SetFixation([fixation EXCEPT !.vergence = Halves(ToPix(units, 1, size, v))])

\* win.fixationTilt = t: the vertical component of [0, t]
SetFixationTilt(t) ==
    SetFixation([fixation EXCEPT !.tilt = Halves(ToPix(units, 2, size, t))])

\* Values given to the setters: whole and half units.
UnitInputs == {Rat(n, 2) : n \in FixValues} \cup {Rat(n, 1) : n \in FixValues}

\* The same, half units only.
HalfInputs == {Rat(n, 2) : n \in FixValues}

(***************************************************************************)
(* Spec: the mode state machine and the per-frame protocol, every mode.    *)
(***************************************************************************)
Blank == {[left |-> Background, right |-> Background]}

Init == InitWindow(Modes \cup {UnknownMode}, {<<MaxW, MaxH>>}, BOOLEAN, Blank) /\ InitEnv({TRUE})

Next ==
    \/ \E mode \in Modes \cup {UnknownMode} : SetStereoMode(mode)
    \/ \E buffer \in Eyes \cup {"back"}, clear \in BOOLEAN : SetBuffer(buffer, clear)
    \/ Flip
    \/ \E given \in BOOLEAN : SetFlipCallback(given)
    \/ \E delta \in {-1, 1} : SetAutoDraw(delta)

Spec == Init /\ [][Next]_vars


(***************************************************************************)
(* Claims about the mode state machine and the per-frame protocol (Spec).  *)
(***************************************************************************)
\* The kind and argument of each event, in order.
Calls(evs) == [i \in 1..Len(evs) |-> <<evs[i].kind, evs[i].arg>>]

IsEyeBind(e) == e.kind = "bind" /\ e.arg \in {"LE", "RE"}

IsDefaultBind(e) == e.kind = "bind" /\ e.arg = "default"

IsSwap(e) == e.kind = "swap"

IsBlip(e) == e.kind = "blip"

IsCallback(e) == e.kind = "callback"

\* C1: in 'sequential' mode with a flip callback registered, every flip()
\* composites the left eye, swaps, calls back with 'left', composites the
\* right eye, swaps, calls back with 'right': two swaps and two callback
\* invocations, in that order.
C1_SequentialFlipOrder ==
    (last.op = "flip" /\ last.before = "sequential" /\ flipCallback) =>
        /\ Calls(OfKinds(events, {"blip", "swap", "callback"})) =
              << <<"blip", "left">>, <<"swap", "primary">>, <<"callback", "left">>,
                 <<"blip", "right">>, <<"swap", "primary">>, <<"callback", "right">> >>
        /\ Count(events, IsSwap) = 2
        /\ Count(events, IsCallback) = 2

C1_Witness ==
    /\ last.op = "flip" /\ last.before = "sequential" /\ flipCallback
    /\ Count(events, IsCallback) = 2

\* C2: on a window constructed in a mode other than 'quad-buffered' and
\* 'dual-head', assigning stereoMode any mode other than those two succeeds,
\* whatever operations came before, and the getter returns the assigned value.
C2_MutableModeAssignSucceeds ==
    (last.op = "stereoMode" /\ ctorMode \notin FixedModes /\ last.arg \in MutableModes) =>
        (last.err = "" /\ stereoMode = last.arg)

C2_Witness ==
    /\ last.op = "stereoMode" /\ ctorMode \in MutableModes
    /\ last.arg \in MutableModes /\ last.arg # last.before /\ last.before # ctorMode
    /\ stereoMode = last.arg

C5_NoCompositingInDirectModes ==
    /\ (last.op = "setBuffer" /\ last.before \in {"none", "quad-buffered"}) =>
          Count(events, IsEyeBind) = 0
    /\ (last.op = "flip" /\ last.before \in {"none", "quad-buffered"}) =>
          /\ Count(events, IsEyeBind) = 0
          /\ Count(events, IsBlip) = 0
          /\ Count(events, IsSwap) = 1

C5_Witness ==
    /\ last.op = "flip" /\ last.before = "none" /\ ctorMode = "none"
    /\ Count(events, IsSwap) = 1 /\ toDraw > 0


\* The framebuffer bound when the i-th call of `evs` is made ("unknown"
\* before the first bind).
BoundAt(evs, i) == BoundAfter(SubSeq(evs, 1, i - 1), "unknown")

\* The calls of `evs` that draw stimulus k into framebuffer `fbo`.
DrawsOf(evs, k, fbo) ==
    {i \in 1..Len(evs) : evs[i] = EvStim(k) /\ BoundAt(evs, i) = fbo}

FboBased(mode) == mode \notin {"none", "quad-buffered"}

\* C14: in every FBO-based mode each flip() draws every stimulus registered
\* for auto-draw exactly once into the left eye buffer and exactly once into
\* the right eye buffer, before any composite draw of that frame, and no
\* base swap of that flip draws it again (a stimulus is drawn nowhere else).
C14_AutoDrawOncePerEye ==
    (last.op = "flip" /\ FboBased(last.before)) =>
        /\ \A k \in 1..toDraw :
              /\ Cardinality(DrawsOf(events, k, "LE")) = 1
              /\ Cardinality(DrawsOf(events, k, "RE")) = 1
        /\ \A i \in 1..Len(events) :
              events[i].kind = "stim" =>
                  /\ BoundAt(events, i) \in {"LE", "RE"}
                  /\ \A j \in 1..i : events[j].kind \notin {"blip", "swap"}

C14_Witness ==
    /\ last.op = "flip" /\ last.before = "sequential" /\ toDraw = MaxStim
    /\ Count(events, IsSwap) = 2
    /\ Cardinality(DrawsOf(events, MaxStim, "RE")) = 1

\* C15: when flip() returns in an FBO-based mode, the auto-draw registration
\* is what it was when flip() was called.
C15_AutoDrawRestored ==
    [][(last'.op = "flip" /\ FboBased(stereoMode)) => toDraw' = toDraw]_vars

C15_Witness ==
    /\ last.op = "flip" /\ FboBased(last.before) /\ toDraw = MaxStim
    /\ Count(events, IsBlip) > 0

\* The window whose GL context is current once `evs` have run.
RECURSIVE CurrentAfter(_, _)
CurrentAfter(evs, cur) ==
    IF evs = <<>> THEN cur
    ELSE CurrentAfter(Tail(evs), IF Head(evs).kind = "current" THEN Head(evs).arg ELSE cur)

\* The window whose context is current when the i-th call of `evs` is made,
\* the primary one being current when the operation starts.
CurrentAt(evs, i) == CurrentAfter(SubSeq(evs, 1, i - 1), "primary")

\* C16: in 'dual-head' mode every flip() composites the left eye into the
\* primary output, swaps the primary output, makes the second window's
\* context current, composites the right eye into it, swaps the second
\* window exactly once and makes the primary context current again; the
\* primary context is current when flip() returns.
C16_DualHeadOrder ==
    (last.op = "flip" /\ last.before = "dual-head") =>
        /\ Calls(OfKinds(events, {"blip", "swap", "current"})) =
              << <<"blip", "left">>, <<"swap", "primary">>, <<"current", "win2">>,
                 <<"blip", "right">>, <<"swap", "secondary">>, <<"current", "primary">> >>
        /\ \A i \in 1..Len(events) :
              /\ (events[i].kind = "blip" /\ events[i].arg = "left") =>
                    CurrentAt(events, i) = "primary"
              /\ (events[i].kind = "blip" /\ events[i].arg = "right") =>
                    CurrentAt(events, i) = "win2"
              /\ events[i].kind = "swap" =>
                    CurrentAt(events, i) =
                        (IF events[i].arg = "primary" THEN "primary" ELSE "win2")
        /\ CurrentAfter(events, "primary") = "primary"

C16_Witness ==
    /\ last.op = "flip" /\ last.before = "dual-head" /\ ctorMode = "dual-head"
    /\ \E i \in 1..Len(events) :
          events[i] = Ev("swap", "secondary") /\ CurrentAt(events, i) = "win2"
    /\ CurrentAfter(events, "primary") = "primary"

\* The eye whose image the i-th call of `evs`, a swap, presents: the eye of
\* the last composite draw before it.
PresentedBy(evs, i) ==
    LET blips == {j \in 1..(i - 1) : evs[j].kind = "blip"}
    IN  IF blips = {} THEN "none"
        ELSE evs[CHOOSE j \in blips : \A k \in blips : k <= j].arg

\* C18: flip() invokes the flip callback only in 'sequential' and
\* 'dual-head' modes and only when one is registered; each invocation comes
\* immediately after a physical swap, with no composite draw or other swap
\* in between, and is tagged with the eye whose image that swap presented.
C18_CallbackFollowsItsSwap ==
    last.op = "flip" =>
        /\ last.before \notin {"sequential", "dual-head"} => Count(events, IsCallback) = 0
        /\ ~flipCallback => Count(events, IsCallback) = 0
        /\ \A i \in 1..Len(events) :
              events[i].kind = "callback" =>
                  /\ i > 1 /\ events[i - 1].kind = "swap"
                  /\ PresentedBy(events, i - 1) = events[i].arg

C18_Witness ==
    /\ last.op = "flip" /\ last.before = "dual-head" /\ flipCallback
    /\ Calls(OfKinds(events, {"swap", "callback"})) =
          << <<"swap", "primary">>, <<"callback", "left">>,
             <<"swap", "secondary">>, <<"callback", "right">> >>

\* C12: setBuffer() called with a buffer selector other than 'left' or
\* 'right' raises an error to the caller in every stereo mode.
C12_UnknownSelectorRaises ==
    (last.op = "setBuffer" /\ last.arg \notin Eyes) => last.err = "ValueError"


\* C27: in every reachable state the window's stereo mode is one of the 19
\* enumerated modes: neither construction nor the stereoMode setter ever
\* leaves the mode at a value outside that set, whatever value the caller
\* supplies.
C27_ModeIsEnumerated == Cardinality(Modes) = 19 /\ stereoMode \in Modes

\* The viewport in force at call i of `evs`: the last glViewport before it.
ViewportAt(evs, i) ==
    LET js == {j \in 1..(i - 1) : evs[j].kind = "viewport"}
    IN  IF js = {} THEN NoRect
        ELSE evs[CHOOSE j \in js : \A k \in js : k <= j].rect

\* The composite draws of `evs` that show `eye`.
BlipsOf(evs, eye) == {i \in 1..Len(evs) : IsBlip(evs[i]) /\ evs[i].arg = eye}

\* The half of a W by H window the left eye is shown in, by the mode's name;
\* the right eye is shown in the other.
LeftHalf(W, H) == <<0, 0, W \div 2, H>>

RightHalf(W, H) == <<W \div 2, 0, W \div 2, H>>

TopHalf(W, H) == <<0, H \div 2, W, H \div 2>>

BottomHalf(W, H) == <<0, 0, W, H \div 2>>

SplitModes == HorizontalModes \cup VerticalModes \cup {"side-by-side-compressed"}

\* C31: the eye shown in each partition follows the mode name: 'left/right'
\* and 'side-by-side-compressed' put the left eye in the left half,
\* 'right/left' puts the right eye in the left half, 'top/bottom' and
\* 'top/bottom-anticross' put the left eye in the top half, 'bottom/top' and
\* 'bottom/top-anticross' put the left eye in the bottom half; in each of
\* these modes every flip() composites each eye exactly once.
C31_EyeFollowsModeName ==
    (last.op = "flip" /\ last.before \in SplitModes) =>
        LET W == size[1]
            H == size[2]
            halves ==
              CASE last.before \in {"left/right", "side-by-side-compressed"} ->
                      [left |-> LeftHalf(W, H), right |-> RightHalf(W, H)]
                [] last.before = "right/left" ->
                      [left |-> RightHalf(W, H), right |-> LeftHalf(W, H)]
                [] last.before \in {"top/bottom", "top/bottom-anticross"} ->
                      [left |-> TopHalf(W, H), right |-> BottomHalf(W, H)]
                [] last.before \in {"bottom/top", "bottom/top-anticross"} ->
                      [left |-> BottomHalf(W, H), right |-> TopHalf(W, H)]
        IN  /\ \A eye \in Eyes :
                 /\ Cardinality(BlipsOf(events, eye)) = 1
                 /\ \A i \in BlipsOf(events, eye) : ViewportAt(events, i) = halves[eye]
            /\ Count(events, IsBlip) = 2

C31_Witness ==
    /\ last.op = "flip" /\ last.before = "bottom/top-anticross"
    /\ \E i \in BlipsOf(events, "right") :
          ViewportAt(events, i) = TopHalf(size[1], size[2])
    /\ \E i \in BlipsOf(events, "left") :
          ViewportAt(events, i) = BottomHalf(size[1], size[2])

(***************************************************************************)
(* SpecVP: the horizontally split modes, every window size, and the        *)
(* fixation setters.                                                       *)
(***************************************************************************)
SideBySideModes == HorizontalModes \cup {"side-by-side-compressed"}

InitVP == InitWindow(SideBySideModes, Sizes, {FALSE}, Blank) /\ InitEnv({TRUE})

NextVP ==
    \/ \E mode \in SideBySideModes : SetStereoMode(mode)
    \/ \E x \in HalfInputs, y \in HalfInputs : SetFixationOffset(x, y)
    \/ \E v \in HalfInputs : SetFixationVergence(v)
    \/ \E t \in HalfInputs : SetFixationTilt(t)
    \/ Flip

SpecVP == InitVP /\ [][NextVP]_vars

\* The rectangles of the glViewport calls, in order.
Viewports(evs) ==
    LET vps == OfKinds(evs, {"viewport"}) IN [i \in 1..Len(vps) |-> vps[i].rect]

\* How many of the rectangles cover pixel column `col`.
Coverage(rects, col) ==
    Cardinality({i \in 1..Len(rects) : rects[i][1] <= col /\ col < rects[i][1] + rects[i][3]})

\* C8 as stated: in 'left/right' mode the two partitions have widths W//2
\* and W - W//2 and cover every pixel column of the window exactly once
\* (taken at zero fixation adjustment, where the partitions are not shifted).
C8_Original ==
    (last.op = "flip" /\ last.before = "left/right" /\ fixation = ZeroFixation) =>
        LET W == size[1]
            rects == Viewports(events)
        IN  /\ Len(rects) = 2
            /\ rects[1][3] = W \div 2
            /\ rects[2][3] = W - (W \div 2)
            /\ \A col \in 0..(W - 1) : Coverage(rects, col) = 1

\* C8 amended: in 'left/right' mode at zero fixation adjustment both
\* partitions have width W//2 and never overlap; they cover every pixel
\* column exactly once when W is even, and every column but the last, which
\* neither covers, when W is odd.
C8_LeftRightPartitions ==
    (last.op = "flip" /\ last.before = "left/right" /\ fixation = ZeroFixation) =>
        LET W == size[1]
            rects == Viewports(events)
        IN  /\ Len(rects) = 2
            /\ rects[1][3] = W \div 2
            /\ rects[2][3] = W \div 2
            /\ \A col \in 0..(W - 1) :
                  Coverage(rects, col) = (IF W % 2 = 1 /\ col = W - 1 THEN 0 ELSE 1)

C8_Witness ==
    /\ last.op = "flip" /\ last.before = "left/right" /\ fixation = ZeroFixation
    /\ size[1] % 2 = 1
    /\ Coverage(Viewports(events), size[1] - 1) = 0

\* C9: in 'side-by-side-compressed', 'left/right' and 'right/left' modes at
\* zero fixation adjustment both partitions are W//2 wide (the largest w
\* with 2*w <= W), so for an odd W exactly one pixel column is covered by
\* neither partition.
C9_HalfWidthPartitions ==
    (last.op = "flip" /\ last.before \in SideBySideModes /\ fixation = ZeroFixation) =>
        LET W == size[1]
            rects == Viewports(events)
        IN  /\ Len(rects) = 2
            /\ \A i \in 1..2 : 2 * rects[i][3] <= W /\ W < 2 * rects[i][3] + 2
            /\ W % 2 = 1 =>
                  Cardinality({col \in 0..(W - 1) : Coverage(rects, col) = 0}) = 1

C9_Witness ==
    /\ last.op = "flip" /\ last.before = "side-by-side-compressed"
    /\ fixation = ZeroFixation /\ size[1] % 2 = 1
    /\ Cardinality({col \in 0..(size[1] - 1) : Coverage(Viewports(events), col) = 0}) = 1


\* C22: in every reachable state of a window that owns eye buffers, both
\* eye buffers have the window's current pixel size: they are sized from
\* the window size at construction and no later operation makes them
\* differ from it.
C22_EyeBuffersMatchWindow ==
    ctorMode # "quad-buffered" => \A eye \in Eyes : eyeSize[eye] = size

C22_Witness ==
    /\ ctorMode = "left/right" /\ size = <<3, 2>>
    /\ last.op = "flip" /\ last.before = "side-by-side-compressed"
    /\ eyeSize["left"] = <<3, 2>> /\ eyeSize["right"] = <<3, 2>>

\* C32: in 'left/right' and 'right/left' modes the viewport origin of the
\* half showing the left eye is (base_x + offset_x + vergence,
\* offset_y + tilt) and that of the half showing the right eye is
\* (base_x + offset_x - vergence, offset_y - tilt), each coordinate
\* truncated to an integer, where base_x is 0 for the left half and W//2
\* for the right half; the sign follows the eye, not the half.  (Fixation
\* quantities are in half-pixels, so base_x counts twice.)
C32_OriginFollowsEye ==
    (last.op = "flip" /\ last.before \in HorizontalModes) =>
        LET W == size[1]
            onLeft == IF last.before = "left/right" THEN "left" ELSE "right"
            base(eye) == IF eye = onLeft THEN 0 ELSE W \div 2
        IN  /\ \A i \in BlipsOf(events, "left") :
                 /\ ViewportAt(events, i)[1] =
                      Trunc(2 * base("left") + fixation.offset[1] + fixation.vergence)
                 /\ ViewportAt(events, i)[2] = Trunc(fixation.offset[2] + fixation.tilt)
            /\ \A i \in BlipsOf(events, "right") :
                 /\ ViewportAt(events, i)[1] =
                      Trunc(2 * base("right") + fixation.offset[1] - fixation.vergence)
                 /\ ViewportAt(events, i)[2] = Trunc(fixation.offset[2] - fixation.tilt)
            /\ BlipsOf(events, "left") # {} /\ BlipsOf(events, "right") # {}

\* 'right/left' with vergence and tilt: the right eye, in the left half,
\* is shifted against the left eye.
C32_Witness ==
    /\ last.op = "flip" /\ last.before = "right/left" /\ size = <<4, 3>>
    /\ fixation.vergence = -1 /\ fixation.tilt = 1 /\ fixation.offset = <<1, 0>>
    /\ \E i \in BlipsOf(events, "right") :
          ViewportAt(events, i) = <<1, 0, 2, 3>>
    /\ \E i \in BlipsOf(events, "left") :
          ViewportAt(events, i) = <<2, 0, 2, 3>>

(***************************************************************************)
(* SpecCT: the crossTalk setter, on a window with and without a shader     *)
(* table.  2-vectors range over NaN and numbers below, at, inside and      *)
(* above [0, 1]; matrices over numbers below, inside and above.            *)
(***************************************************************************)
CoefInputs == {NaN, Num(-Over), Num(0), Num(1), Num(Unit), Num(Unit + Over)}

MatrixCoefs == {Num(-Over), Num(1), Num(Unit + Over)}

MatrixInputs == [1..2 -> [Channels -> MatrixCoefs]]

InitCT == InitWindow({"left/right", "quad-buffered"}, {<<MaxW, MaxH>>}, {FALSE}, Blank) /\ InitEnv({TRUE})

NextCT ==
    \/ SetCrossTalk(ArgNone)
    \/ \E a \in CoefInputs, b \in CoefInputs : SetCrossTalk(ArgVec(a, b))
    \/ \E m \in MatrixInputs : SetCrossTalk(ArgMat(m))

SpecCT == InitCT /\ [][NextCT]_vars

\* x clamped to [0, 1]: 0 below 0, 1 above 1, x itself otherwise.
Clamped(x) ==
    IF x.nan THEN x
    ELSE IF x.v < 0 THEN Num(0) ELSE IF x.v > Unit THEN Num(Unit) ELSE x

InUnitRange(x) == ~x.nan /\ 0 <= x.v /\ x.v <= Unit

\* C6: after crossTalk is assigned a 2-vector [a, b] the stored matrix is
\* [[a, a, a], [b, b, b]] with every entry clamped to [0, 1]; after it is
\* assigned a 2x3 matrix the stored matrix is that matrix with every entry
\* clamped to [0, 1].
C6_StoredIsClampedInput ==
    /\ (last.op = "crossTalk" /\ ctArg.shape = "vec2") =>
          \A c \in Channels :
              /\ crossTalk[1][c] = Clamped(ctArg.vec[1])
              /\ crossTalk[2][c] = Clamped(ctArg.vec[2])
    /\ (last.op = "crossTalk" /\ ctArg.shape = "mat23") =>
          \A e \in 1..2, c \in Channels : crossTalk[e][c] = Clamped(ctArg.mat[e][c])

C6_Witness ==
    /\ last.op = "crossTalk" /\ ctArg.shape = "vec2"
    /\ ctArg.vec = <<Num(Unit + Over), Num(1)>>
    /\ crossTalk = << <<Num(Unit), Num(Unit), Num(Unit)>>, <<Num(1), Num(1), Num(1)>> >>

\* C7: every stored cross-talk coefficient lies in [0, 1] in every state
\* reached by construction and any sequence of crossTalk assignments.
C7_CoefficientsInUnitRange ==
    \A e \in 1..2, c \in Channels : InUnitRange(crossTalk[e][c])


(***************************************************************************)
(* SpecPix: the blend math of the anticross modes.  Both eye buffers hold  *)
(* a uniform colour, the coefficients are assigned as 2-vectors of numbers *)
(* of [0, 1], and flip() composites.                                       *)
(***************************************************************************)
AnticrossModes == AnaglyphAnticrossModes \cup SplitAnticrossModes

PixCoefs == {Num(0), Num(1), Num(Unit)}

Filled == [left : Colours, right : Colours]

InitPix == InitWindow(AnticrossModes, {<<MaxW, MaxH>>}, {FALSE}, Filled) /\ InitEnv({TRUE})

NextPix ==
    \/ \E a \in PixCoefs, b \in PixCoefs : SetCrossTalk(ArgVec(a, b))
    \/ Flip

SpecPix == InitPix /\ [][NextPix]_vars

\* The output channel an anaglyph mode gives each eye: 'red/green' shows
\* the left eye in red and the right eye in green.
LeftChannel(mode) ==
    CASE mode \in {"red/green-anticross", "red/blue-anticross"} -> 1
      [] mode = "green/red-anticross" -> 2
      [] mode = "blue/red-anticross" -> 3

RightChannel(mode) ==
    CASE mode \in {"green/red-anticross", "blue/red-anticross"} -> 1
      [] mode = "red/green-anticross" -> 2
      [] mode = "red/blue-anticross" -> 3

\* The colour the composite draw of `eye` wrote in the last flip().
Written(eye) == frame[CHOOSE i \in 1..Len(frame) : frame[i].eye = eye].rgb

\* max(this - k * other, 0), in the units of a colour written.
Cancelled(this, k, other) == Num(Max0(this * Unit - k.v * other))

\* The left eye's coefficient is k for every channel.
LeftCoefficientIs(k) == crossTalk[1] = <<k, k, k>>

FlippedIn(modes) == last.op = "flip" /\ last.before \in modes

\* C10 as stated: in every anticross mode, with uniform colours in the eye
\* buffers and left-eye coefficient k, each colour channel c shown to the
\* left eye is max(C_left[c] - k * C_right[c], 0).  In an anaglyph mode the
\* left eye is shown one channel of the output.
C10_Original ==
    \A k \in PixCoefs : LeftCoefficientIs(k) =>
        /\ FlippedIn(SplitAnticrossModes) =>
              \A c \in Channels :
                  Written("left")[c] = Cancelled(tex.left[c], k, tex.right[c])
        /\ FlippedIn(AnaglyphAnticrossModes) =>
              LET c == LeftChannel(last.before)
              IN  Written("both")[c] = Cancelled(tex.left[c], k, tex.right[c])

\* C10 amended: in the two split anticross modes each colour channel c shown
\* to the left eye is max(C_left[c] - k * C_right[c], 0); in the four
\* anaglyph-anticross modes the output channel that carries the left eye is
\* max(C_left[that channel] - k * C_right[the channel that carries the
\* right eye], 0).
C10_AnticrossBlend ==
    \A k \in PixCoefs : LeftCoefficientIs(k) =>
        /\ FlippedIn(SplitAnticrossModes) =>
              \A c \in Channels :
                  Written("left")[c] = Cancelled(tex.left[c], k, tex.right[c])
        /\ FlippedIn(AnaglyphAnticrossModes) =>
              LET c == LeftChannel(last.before)
                  d == RightChannel(last.before)
              IN  Written("both")[c] = Cancelled(tex.left[c], k, tex.right[d])

C10_Witness ==
    /\ FlippedIn({"red/green-anticross"}) /\ LeftCoefficientIs(Num(1))
    /\ crossTalk[2] # crossTalk[1]
    /\ tex.left = <<Unit, 1, 1>> /\ tex.right = <<Unit, 1, 1>>
    /\ Written("both")[1] = Num(Unit * Unit - 1)


(***************************************************************************)
(* SpecDev: the device configuration adapter, on windows of every size     *)
(* constructed in a mutable and in a fixed mode.                           *)
(***************************************************************************)
DeliveryModes ==
    {"none", "blueline", "freerun", "RB3D", "double-height", "left/right", "quad-buffered",
     "red/green", UnknownMode}

InitDev ==
    /\ InitWindow({"left/right", "dual-head", "quad-buffered"}, Sizes, {FALSE}, Blank)
    /\ InitEnv({TRUE})

NextDev ==
    \/ \E mode \in DeliveryModes : SetPolarizerMode(mode)
    \/ \E mode \in {"left/right", "none"} : SetStereoMode(mode)
    \/ \E config \in ResetConfigs : ResetPropixx(config)

SpecDev == InitDev /\ [][NextDev]_vars

RegisterWrites ==
    {"setRearProjectionMode", "setCeilingMountMode", "setDlpSequencerProgram",
     "setVideoMode", "setVideoVesaBlueline", "setVesaFreeRun"}

IsDeviceCall(e) == e.kind \in RegisterWrites \cup {"updateRegisterCache"}

\* C11: set_polarizer_mode(win, pixx, 'double-height') on a window whose
\* height is not greater than its width raises ValueError, makes no device
\* call (no register write, no commit: the registers stay as they were) and
\* leaves the window's stereo mode unchanged.
C11_DoubleHeightNeedsTallOutput ==
    [][(/\ last'.op = "set_polarizer_mode" /\ last'.arg = "double-height"
        /\ ~(size[2] > size[1]))
        => (/\ last'.err = "ValueError"
            /\ Count(events', IsDeviceCall) = 0
            /\ pixx' = pixx
            /\ stereoMode' = stereoMode)]_vars

C11_Witness ==
    /\ last.op = "set_polarizer_mode" /\ last.arg = "double-height"
    /\ size[2] = size[1] /\ ctorMode = "left/right"
    /\ last.err = "ValueError" /\ events = <<>>
    /\ stereoMode = "sequential" /\ pixx.VideoVesaBlueline


\* What a successful set_polarizer_mode leaves: the window's stereo mode,
\* the sequencer program, blue-line sync, free-run.
Delivered ==
    <<stereoMode, pixx.DlpSequencerProgram, pixx.VideoVesaBlueline, pixx.VesaFreeRun>>

\* C23: a successful set_polarizer_mode sets the window mode and the device
\* registers (sequencer program, blue-line sync, free-run) by a fixed table:
\* 'none' -> (none, RGB, off, off); 'blueline' -> (sequential, RGB, on, off);
\* 'freerun' -> (sequential, RGB, off, on); 'RB3D' -> (red/blue-anticross,
\* RB3D, off, off); 'double-height' -> (top/bottom-anticross, RGB, off, off);
\* any other name -> (that name, RGB, off, off); blue-line sync and free-run
\* are never both enabled.
C23_DeliveryTable ==
    (last.op = "set_polarizer_mode" /\ last.err = "") =>
        /\ Delivered =
             CASE last.arg = "none" -> <<"none", "RGB", FALSE, FALSE>>
               [] last.arg = "blueline" -> <<"sequential", "RGB", TRUE, FALSE>>
               [] last.arg = "freerun" -> <<"sequential", "RGB", FALSE, TRUE>>
               [] last.arg = "RB3D" -> <<"red/blue-anticross", "RB3D", FALSE, FALSE>>
               [] last.arg = "double-height" ->
                      <<"top/bottom-anticross", "RGB", FALSE, FALSE>>
               [] OTHER -> <<last.arg, "RGB", FALSE, FALSE>>
        /\ ~(pixx.VideoVesaBlueline /\ pixx.VesaFreeRun)

\* 'blueline' requested of a device that reset_propixx left in free-run.
C23_Witness ==
    /\ last.op = "set_polarizer_mode" /\ last.arg = "blueline" /\ last.err = ""
    /\ last.before = "top/bottom-anticross"
    /\ pixx.VideoMode = "L48"
    /\ Delivered = <<"sequential", "RGB", TRUE, FALSE>>

\* The register writes among `evs`, in order, by name.
WritesOf(evs) == [i \in 1..(Len(evs) - 1) |-> evs[i].kind]

\* C24: every successful set_polarizer_mode or reset_propixx call writes all
\* its register fields first and then issues exactly one commit
\* (updateRegisterCache) as its last device call; a call that fails issues
\* no commit.
C24_WritesThenOneCommit ==
    last.op \in {"set_polarizer_mode", "reset_propixx"} =>
        IF last.err = ""
        THEN /\ events # <<>>
             /\ events[Len(events)].kind = "updateRegisterCache"
             /\ Count(events, LAMBDA e : e.kind = "updateRegisterCache") = 1
             /\ WritesOf(events) =
                  IF last.op = "reset_propixx"
                  THEN <<"setRearProjectionMode", "setCeilingMountMode",
                         "setDlpSequencerProgram", "setVideoMode",
                         "setVideoVesaBlueline", "setVesaFreeRun">>
                  ELSE <<"setDlpSequencerProgram", "setVideoVesaBlueline",
                         "setVesaFreeRun">>
        ELSE Count(events, LAMBDA e : e.kind = "updateRegisterCache") = 0

C24_Witness ==
    /\ last.op = "reset_propixx" /\ last.arg = "dict" /\ last.err = ""
    /\ Len(events) = 7 /\ events[7].kind = "updateRegisterCache"
    /\ pixx.DlpSequencerProgram = "RB3D" /\ pixx.VideoVesaBlueline

\* C39: set_polarizer_mode on a window whose mode is fixed at construction
\* ('quad-buffered' or 'dual-head') fails with an error before any device
\* register write or commit is issued, for every requested delivery mode
\* name; the device registers are as they were.
C39_FixedWindowNoDeviceWrite ==
    [][(last'.op = "set_polarizer_mode" /\ stereoMode \in FixedModes) =>
          /\ last'.err = "ValueError"
          /\ Count(events', IsDeviceCall) = 0
          /\ pixx' = pixx
          /\ stereoMode' = stereoMode]_vars

\* 'blueline' requested for a 'dual-head' window whose device had been
\* reset before: refused, the registers still those of the reset.
C39_Witness ==
    /\ last.op = "set_polarizer_mode" /\ last.arg = "blueline"
    /\ last.before = "dual-head" /\ last.err = "ValueError"
    /\ events = <<>> /\ stereoMode = "dual-head"
    /\ pixx.VideoMode # OrdinaryRegisters.VideoMode

(***************************************************************************)
(* SpecSync: the swaps of flip() and the value it returns, on windows that *)
(* wait for the vertical blank and on windows that do not.                 *)
(***************************************************************************)
InitSync == InitWindow(Modes, {<<MaxW, MaxH>>}, BOOLEAN, Blank) /\ InitEnv(BOOLEAN)

NextSync ==
    \/ \E mode \in Modes : SetStereoMode(mode)
    \/ Flip
    \/ \E given \in BOOLEAN : SetFlipCallback(given)
    \/ \E delta \in {-1, 1} : SetAutoDraw(delta)

SpecSync == InitSync /\ [][NextSync]_vars

\* The position in `evs` of the last swap of any output.
LastSwap(evs) ==
    CHOOSE i \in 1..Len(evs) :
        evs[i].kind = "swap" /\ \A j \in (i + 1)..Len(evs) : evs[j].kind # "swap"

IsBlockingSwap(e) == e.kind = "swap" /\ Blocks(e.arg, waitBlanking)

IsNonBlockingSwap(e) == e.kind = "swap" /\ ~Blocks(e.arg, waitBlanking)

\* C13: in every mode flip() returns the completion time of the last
\* physical swap performed during that flip, or None when the window does
\* not wait for the vertical blank.
C13_ReturnsLastSwapTime ==
    last.op = "flip" =>
        IF waitBlanking
        THEN ~flipTime.none /\ flipTime.swap = LastSwap(events)
        ELSE flipTime.none

\* C17 as stated: in 'sequential' and in 'dual-head' mode, on a window that
\* waits for the vertical blank, every flip() makes exactly two blocking
\* swap calls.
C17_Original ==
    (last.op = "flip" /\ last.before \in {"sequential", "dual-head"} /\ waitBlanking) =>
        Count(events, IsBlockingSwap) = 2

\* C17 amended: on a window that waits for the vertical blank, a flip() in
\* 'sequential' mode makes exactly two blocking swap calls, one per eye; a
\* flip() in 'dual-head' mode makes exactly one blocking swap call, that of
\* the primary output, and one non-blocking swap call, that of the second
\* window.
C17_BlockingSwapsPerFlip ==
    (last.op = "flip" /\ waitBlanking) =>
        /\ last.before = "sequential" =>
              /\ Count(events, IsBlockingSwap) = 2
              /\ Count(events, IsNonBlockingSwap) = 0
        /\ last.before = "dual-head" =>
              /\ Count(events, IsBlockingSwap) = 1
              /\ Count(events, IsNonBlockingSwap) = 1
              /\ \A i \in 1..Len(events) :
                    IsBlockingSwap(events[i]) => events[i].arg = "primary"

C17_Witness ==
    /\ last.op = "flip" /\ last.before = "dual-head" /\ waitBlanking
    /\ Count(events, IsSwap) = 2 /\ Count(events, IsBlockingSwap) = 1
    /\ ~flipTime.none


(***************************************************************************)
(* SpecOff: two OffscreenWindow objects on one window, the window's own    *)
(* setBuffer(), and an application that puts its own program in use and    *)
(* binds its own vertex array.  A framebuffer holds an unspecified colour  *)
(* until it is cleared or drawn into.                                      *)
(***************************************************************************)
Fresh == {Background, <<Unit, Unit, Unit>>}

InitOff ==
    /\ InitWindow({"none", "left/right"}, {<<MaxW, MaxH>>}, {FALSE}, Blank)
    /\ InitGl({TRUE})
    /\ offTex \in [Surfaces -> Fresh]

NextOff ==
    \/ \E s \in Surfaces, clear \in BOOLEAN : OffBind(s, clear)
    \/ \E s \in Surfaces : OffUnbind(s)
    \/ \E s \in Surfaces : OffDraw(s)
    \/ \E buffer \in Eyes : SetBuffer(buffer, FALSE)
    \/ \E p \in {"none", "app"} : AppUseProgram(p)
    \/ \E v \in {"none", "app"} : AppBindVertexArray(v)

SpecOff == InitOff /\ [][NextOff]_vars

\* C19: after bind(clear) the surface's framebuffer is the bound one,
\* cleared to the window background exactly when clear is true (otherwise
\* it holds what it held), whatever was bound before, another surface
\* included; after unbind() the default framebuffer is bound, whatever was
\* bound before.  No other framebuffer's content changes.
C19_BindAndUnbind ==
    [][/\ last'.op = BindOp(TRUE) =>
             /\ boundFbo' = last'.arg
             /\ offTex' = [offTex EXCEPT ![last'.arg] = Background]
             /\ tex' = tex
       /\ last'.op = BindOp(FALSE) =>
             /\ boundFbo' = last'.arg
             /\ offTex' = offTex /\ tex' = tex
       /\ (last'.op \in {BindOp(TRUE), BindOp(FALSE)} /\ boundFbo \in Surfaces) =>
             Count(events', IsDefaultBind) = 0
       /\ last'.op = "unbind" =>
             /\ boundFbo' = "default"
             /\ offTex' = offTex /\ tex' = tex]_vars

C19_Witness ==
    /\ last.op = BindOp(FALSE) /\ last.arg = "S2" /\ boundFbo = "S2"
    /\ offTex["S1"] = Background /\ offTex["S2"] = <<Unit, Unit, Unit>>
    /\ tex.left = <<Unit, Unit, Unit>>

\* C20: OffscreenWindow.draw() leaves the bound framebuffer, the active
\* shader program and the bound vertex array exactly as they were before
\* the call, for every prior GPU binding state.
C20_DrawLeavesBindings ==
    [][last'.op = "draw" =>
          /\ boundFbo' = boundFbo
          /\ activeProgram' = activeProgram
          /\ boundVao' = boundVao]_vars

\* C40: the number of GPU objects owned on behalf of an OffscreenWindow is
\* bounded: after any number of draw() calls, no vertex array has been
\* created beyond those that existed after the first draw.
C40_NoVertexArrayAfterFirstDraw ==
    \A s \in Surfaces : vertexArrays[s] <= 1

(***************************************************************************)
(* Depth and stencil test enablement: windows with every combination of    *)
(* the two flags, an application that enables and disables the tests for   *)
(* its own drawing, and the operations that change GPU binding state.      *)
(***************************************************************************)
TestModes == {"none", "left/right", "sequential", "red/green", "quad-buffered"}

InitTests ==
    /\ InitWindow(TestModes, {<<MaxW, MaxH>>}, {FALSE}, Blank)
    /\ InitCtx({TRUE}, TestFlags, {"pix"})
    /\ offTex = [s \in Surfaces |-> Background]

NextTests ==
    \/ \E buffer \in Eyes \cup {"back"}, clear \in BOOLEAN : SetBuffer(buffer, clear)
    \/ Flip
    \/ \E s \in Surfaces : OffDraw(s)
    \/ \E test \in {"depth", "stencil"}, on \in BOOLEAN : AppSetTest(test, on)
    \/ \E mode \in {"none", "left/right"} : SetStereoMode(mode)

SpecTests == InitTests /\ [][NextTests]_vars

\* The most recent operation changed GPU binding state: setBuffer() in an
\* FBO-based mode, a flip() that made a composite draw, or draw().
ChangedBindingState ==
    \/ last.op = "setBuffer" /\ FboBased(last.before) /\ last.err = ""
    \/ last.op = "flip" /\ \E i \in 1..Len(events) : IsBlip(events[i])
    \/ last.op = "draw"

\* C21: after each operation that changes GPU binding state (setBuffer in
\* an FBO-based mode, each composite draw of flip(), OffscreenWindow.draw())
\* the depth test is enabled exactly when the window's depth-test flag is
\* set and the stencil test exactly when its stencil-test flag is set,
\* whatever their enablement was before the call.
C21_TestsFollowFlags == ChangedBindingState => glTests = testFlags

(***************************************************************************)
(* SpecUnits: the fixation offset of a 'left/right' window in every unit   *)
(* system.                                                                 *)
(***************************************************************************)
InitUnits ==
    /\ InitWindow({"left/right"}, {<<MaxW, MaxH>>}, {FALSE}, Blank)
    /\ InitCtx({TRUE}, {NoTests}, UnitSystems)
    /\ offTex = [s \in Surfaces |-> Background]

NextUnits ==
    \/ \E x \in UnitInputs, y \in UnitInputs : SetFixationOffset(x, y)
    \/ Flip

SpecUnits == InitUnits /\ [][NextUnits]_vars

\* Two values in the units `u` are within one pixel of each other along an
\* axis.
WithinOnePixel(u, axis, sz, a, b) ==
    RLeq(RMul(RDistance(a, b), PixPerUnit(u, axis, sz)), Rat(1, 1))

FixModes ==
    {"left/right", "side-by-side-compressed", "top/bottom", "bottom/top-anticross",
     "red/green-anticross", "sequential"}

InitFix ==
    InitWindow(FixModes \cup {"dual-head"}, {<<MaxW, MaxH>>}, {FALSE}, Blank)
        /\ InitEnv({TRUE})

NextFix ==
    \/ \E mode \in FixModes : SetStereoMode(mode)
    \/ \E x \in HalfInputs, y \in HalfInputs : SetFixationOffset(x, y)
    \/ \E v \in HalfInputs : SetFixationVergence(v)
    \/ \E t \in HalfInputs : SetFixationTilt(t)
    \/ Flip

SpecFix == InitFix /\ [][NextFix]_vars

\* The viewports flip() sets in a mode that splits the window and is not
\* one of 'left/right' and 'right/left', for a window of W by H pixels.
UnshiftedViewports(mode, W, H) ==
    CASE mode = "side-by-side-compressed" ->
            <<(<<0, 0, W \div 2, H>>), (<<W \div 2, 0, W \div 2, H>>)>>
      [] mode \in VerticalModes ->
            <<(<<0, H \div 2, W, H \div 2>>), (<<0, 0, W, H \div 2>>)>>
      [] OTHER -> <<>>

\* C26: the viewport partitions and composite draws issued by flip() in
\* every mode other than 'left/right' and 'right/left' do not depend on the
\* fixation offset, vergence or tilt values.
C26_FixationOnlyShiftsHorizontal ==
    (last.op = "flip" /\ last.before \notin HorizontalModes) =>
        /\ Viewports(events) = UnshiftedViewports(last.before, size[1], size[2])
        /\ events = FlipEvents(last.before, flipCallback, toDraw, size[1], size[2],
                               ZeroFixation)

C26_Witness ==
    /\ last.op = "flip" /\ last.before = "side-by-side-compressed"
    /\ fixation.offset[1] # 0 /\ fixation.vergence # 0 /\ fixation.tilt # 0
    /\ Len(Viewports(events)) = 2

(***************************************************************************)
(* SpecUni: cross-talk assignments, mode changes and flips of windows that *)
(* have the shader programs, and of one that has none.                     *)
(***************************************************************************)
UniRows == {<<Num(Unit), Num(0), Num(1)>>, <<Num(1), Num(Unit), Num(0)>>}

UniModes == {"red/green-anticross", "blue/red-anticross", "top/bottom-anticross", "none"}

InitUni ==
    InitWindow({"red/green-anticross", "left/right", "quad-buffered"},
               {<<MaxW, MaxH>>}, {FALSE}, Blank) /\ InitEnv({TRUE})

NextUni ==
    \/ SetCrossTalk(ArgNone)
    \/ \E a \in PixCoefs, b \in PixCoefs : SetCrossTalk(ArgVec(a, b))
    \/ \E m \in [1..2 -> UniRows] : SetCrossTalk(ArgMat(m))
    \/ \E mode \in UniModes : SetStereoMode(mode)
    \/ Flip

SpecUni == InitUni /\ [][NextUni]_vars

C33_RolesAndRowPerHalf ==
    (last.op = "flip" /\ last.before \in SplitAnticrossModes) =>
        /\ Len(frame) = 2
        /\ \A i \in 1..Len(frame) :
             /\ frame[i].eye \in Eyes
             /\ frame[i].bound.this = frame[i].eye
             /\ frame[i].bound.other = OtherEye(frame[i].eye)
             /\ frame[i].bound.uniform =
                  IF frame[i].eye = "left" THEN crossTalk[1] ELSE crossTalk[2]

\* A matrix with different rows assigned, then a frame of
\* 'top/bottom-anticross': the right eye's draw carries the second row.
C33_Witness ==
    /\ last.op = "flip" /\ last.before = "top/bottom-anticross"
    /\ crossTalk[1] = <<Num(Unit), Num(0), Num(1)>>
    /\ crossTalk[2] = <<Num(1), Num(Unit), Num(0)>>
    /\ \E i \in 1..Len(frame) :
          /\ frame[i].eye = "right" /\ frame[i].bound.this = "right"
          /\ frame[i].bound.uniform = <<Num(1), Num(Unit), Num(0)>>

(***************************************************************************)
(* compile_shader_program and check_shader_status of src/psykit/gltools.py.*)
(* Whether a compilation or the linkage succeeds is the driver's verdict,  *)
(* an input of the call; the driver's info log of each object is a text.   *)
(*   glCompileShader, glLinkProgram, glDeleteShader                        *)
(*              the GL calls; arg is the object, "vertex", "fragment" or   *)
(*              "program"                                                  *)
(*   raise, print                                                          *)
(*              the message of check_shader_status, raised as ValueError   *)
(*              or printed; arg is its first line, prog the info log       *)
(*   return     the program handed back to the caller                      *)
(***************************************************************************)
InfoLog(object) ==
    CASE object = "vertex" -> "info log of the vertex shader"
      [] object = "fragment" -> "info log of the fragment shader"
      [] object = "program" -> "info log of the program"

\* label=None, label='Vertex', label='Fragment'
ShaderLabels == {"", "Vertex", "Fragment"}

\* The first line of the message, per stage and label.
Complaint(stage, label) ==
    CASE stage = "link" -> "Shader program linkage failed with the following message:"
      [] label = "" -> "Shader compilation failed with the following message:"
      [] label = "Vertex" -> "Vertex shader compilation failed with the following message:"
      [] label = "Fragment" ->
            "Fragment shader compilation failed with the following message:"

EvMessage(kind, complaint, log) ==
    [kind |-> kind, arg |-> complaint, rect |-> NoRect, prog |-> log]

\* A slip of check_shader_status: the failure is printed, never raised.
CheckShaderStatus_PrintsOnly(object, stage, label, success, raiseError) ==
    IF success THEN <<>>
    ELSE <<EvMessage("print", Complaint(stage, label), InfoLog(object))>>

\* check_shader_status(object, stage, raise_error, label=label), the status
\* of the object being `success`.
CheckShaderStatus(object, stage, label, success, raiseError) ==
    IF success THEN <<>>
    ELSE <<EvMessage(IF raiseError THEN "raise" ELSE "print",
                     Complaint(stage, label), InfoLog(object))>>

Raises(evs) == \E i \in 1..Len(evs) : evs[i].kind = "raise"

\* The three stages of compile_shader_program, each up to and including its
\* call of check_shader_status.
VertexStage(ok) ==
    <<Ev("glCompileShader", "vertex")>>
      \o CheckShaderStatus("vertex", "compile", "Vertex", ok, TRUE)

FragmentStage(ok) ==
    <<Ev("glCompileShader", "fragment")>>
      \o CheckShaderStatus("fragment", "compile", "Fragment", ok, TRUE)

LinkStage(ok) ==
    <<Ev("glLinkProgram", "program")>>
      \o CheckShaderStatus("program", "link", "", ok, TRUE)

\* The calls of compile_shader_program: a stage that raises is the last.
CompileEvents(vertexOk, fragmentOk, linkOk) ==
    LET s1 == VertexStage(vertexOk)
        s2 == s1 \o FragmentStage(fragmentOk)
        s3 == s2 \o LinkStage(linkOk)
    IN  CASE Raises(s1) -> s1
          [] Raises(s2) -> s2
          [] Raises(s3) -> s3
          [] OTHER -> s3 \o <<Ev("glDeleteShader", "vertex"),
                              Ev("glDeleteShader", "fragment"),
                              Ev("return", "program")>>

\* What the call hands back: the program, or nothing when it raised.
Returned(evs) ==
    IF evs # <<>> /\ evs[Len(evs)].kind = "return" THEN evs[Len(evs)].arg ELSE ""

\* compile_shader_program(vertex_source, fragment_source)
CompileShaderProgram(vertexOk, fragmentOk, linkOk) ==
    /\ events' = CompileEvents(vertexOk, fragmentOk, linkOk)
    /\ last' = Outcome("compile_shader_program", Returned(events'),
                       IF Raises(events') THEN "ValueError" ELSE "", stereoMode)
    /\ frame' = <<>>
    /\ flipTime' = NoTime
    /\ UNCHANGED <<winVars, ctVars, tex, glVars, envVars>>

\* check_shader_status(object, stage, raise_error, label=label) called on
\* its own
CheckShaderStatusCall(object, stage, label, success, raiseError) ==
    /\ events' = CheckShaderStatus(object, stage, label, success, raiseError)
    /\ last' = Outcome("check_shader_status", object,
                       IF Raises(events') THEN "ValueError" ELSE "", stereoMode)
    /\ frame' = <<>>
    /\ flipTime' = NoTime
    /\ UNCHANGED <<winVars, ctVars, tex, glVars, envVars>>

\* The objects check_shader_status is called on, with the stage of each.
ShaderObjects == {<<"vertex", "compile">>, <<"fragment", "compile">>, <<"program", "link">>}

InitShader ==
    InitWindow({"none", "left/right", "red/green", "sequential"}, {<<MaxW, MaxH>>},
               {FALSE}, Blank) /\ InitEnv({TRUE})

NextShader ==
    \/ \E vertexOk \in BOOLEAN, fragmentOk \in BOOLEAN, linkOk \in BOOLEAN :
          CompileShaderProgram(vertexOk, fragmentOk, linkOk)
    \/ \E o \in ShaderObjects, label \in ShaderLabels,
          success \in BOOLEAN, raiseError \in BOOLEAN :
          CheckShaderStatusCall(o[1], o[2], label, success, raiseError)
    \/ \E p \in {"none", "app"} : AppUseProgram(p)
    \/ \E v \in {"none", "app"} : AppBindVertexArray(v)

SpecShader == InitShader /\ [][NextShader]_vars

\* The object found to have failed first, the order being vertex, fragment,
\* link.
FirstFailure(vertexOk, fragmentOk, linkOk) ==
    CASE ~vertexOk -> "vertex"
      [] ~fragmentOk -> "fragment"
      [] ~linkOk -> "program"
      [] OTHER -> ""

Attempted(evs) ==
    {evs[i].arg : i \in {j \in 1..Len(evs) : evs[j].kind \in {"glCompileShader", "glLinkProgram"}}}

\* C29: compile_shader_program raises an error carrying the compiler/linker
\* diagnostic text as soon as the vertex compile, the fragment compile or
\* the link fails (checked in that order) and returns a program only when
\* all three succeeded; check_shader_status with raise_error false reports
\* the diagnostic without raising.
C29_CompileRaisesAtFirstFailure ==
    [][/\ \A vertexOk \in BOOLEAN, fragmentOk \in BOOLEAN, linkOk \in BOOLEAN :
            CompileShaderProgram(vertexOk, fragmentOk, linkOk) =>
              LET failed == FirstFailure(vertexOk, fragmentOk, linkOk)
                  n == Len(events')
              IN  IF failed = ""
                  THEN /\ last'.err = "" /\ last'.arg = "program"
                       /\ \A i \in 1..n : events'[i].kind \notin {"raise", "print"}
                  ELSE /\ last'.err = "ValueError" /\ last'.arg = ""
                       /\ events'[n].kind = "raise" /\ events'[n].prog = InfoLog(failed)
                       /\ \A i \in 1..(n - 1) : events'[i].kind # "raise"
                       /\ Attempted(events') =
                            CASE failed = "vertex" -> {"vertex"}
                              [] failed = "fragment" -> {"vertex", "fragment"}
                              [] failed = "program" -> {"vertex", "fragment", "program"}
       /\ \A o \in ShaderObjects, label \in ShaderLabels :
            CheckShaderStatusCall(o[1], o[2], label, FALSE, FALSE) =>
              /\ last'.err = ""
              /\ Len(events') = 1 /\ events'[1].kind = "print"
              /\ events'[1].prog = InfoLog(o[1])]_vars

\* The vertex shader compiled, the fragment shader did not: the error
\* carries the fragment shader's log and no link was attempted.
C29_Witness ==
    /\ last.op = "compile_shader_program" /\ last.err = "ValueError" /\ last.arg = ""
    /\ Attempted(events) = {"vertex", "fragment"}
    /\ events[Len(events)].kind = "raise"
    /\ events[Len(events)].prog = InfoLog("fragment")

(***************************************************************************)
(* SpecBuf: setBuffer() on eye buffers that hold what the application drew *)
(* into them.                                                              *)
(***************************************************************************)
InitBuf ==
    /\ InitWindow({"left/right", "red/green", "sequential", "none", "quad-buffered"},
                  {<<MaxW, MaxH>>}, {FALSE}, Blank)
    /\ InitGl({TRUE})
    /\ offTex \in [Surfaces -> Fresh]

NextBuf ==
    \/ \E buffer \in Eyes \cup {"back"}, clear \in BOOLEAN : SetBuffer(buffer, clear)
    \/ \E s \in Surfaces : OffDraw(s)
    \/ \E mode \in {"top/bottom", "none"} : SetStereoMode(mode)

SpecBuf == InitBuf /\ [][NextBuf]_vars

EyeFbo(eye) == IF eye = "left" THEN "LE" ELSE "RE"

\* C30: in every FBO-based mode setBuffer('left', clear) makes the left eye
\* buffer the bound framebuffer and setBuffer('right', clear) the right eye
\* buffer; the newly bound buffer is cleared to the background colour
\* exactly when clear is true, and the other eye's buffer is not cleared or
\* drawn into.
C30_SetBufferBindsItsEye ==
    [][\A eye \in Eyes, clear \in BOOLEAN :
          (SetBuffer(eye, clear) /\ FboBased(stereoMode)) =>
              /\ boundFbo' = EyeFbo(eye)
              /\ tex'[eye] = IF clear THEN Background ELSE tex[eye]
              /\ Count(events', LAMBDA e : e.kind = "clear") = IF clear THEN 1 ELSE 0
              /\ tex'[OtherEye(eye)] = tex[OtherEye(eye)]
              /\ \A i \in 1..Len(events') :
                    events'[i].kind \notin {"stim", "blip", "draw"}]_vars

\* The right eye buffer bound and cleared while the left eye buffer keeps
\* what was drawn into it.
C30_Witness ==
    /\ last.op = "setBuffer" /\ last.arg = "right" /\ last.before = "top/bottom"
    /\ boundFbo = "RE"
    /\ tex.right = Background /\ tex.left = <<Unit, Unit, Unit>>
    /\ \E i \in 1..Len(events) : events[i].kind = "clear"

(***************************************************************************)
(* SpecBlit: windows of the modes that composite the eye buffers, an       *)
(* application that leaves its own program in use, its own vertex array    *)
(* bound and an eye buffer or an OffscreenWindow bound, and flip().        *)
(***************************************************************************)
BlitModes ==
    {"left/right", "side-by-side-compressed", "top/bottom-anticross",
     "red/green", "sequential", "dual-head", "none"}

InitBlit ==
    /\ InitWindow(BlitModes, {<<MaxW, MaxH>>}, BOOLEAN, Blank)
    /\ InitGl({TRUE})
    /\ offTex = [s \in Surfaces |-> Background]

NextBlit ==
    \/ \E buffer \in Eyes : SetBuffer(buffer, FALSE)
    \/ \E s \in Surfaces : OffBind(s, FALSE)
    \/ \E p \in {"none", "app"} : AppUseProgram(p)
    \/ \E v \in {"none", "app"} : AppBindVertexArray(v)
    \/ Flip

SpecBlit == InitBlit /\ [][NextBlit]_vars

\* C34: after every composite draw issued by flip() (each _blipEyeBuffer,
\* in every FBO-based mode) the default framebuffer is bound, no shader
\* program is active and no vertex array is bound; the bindings of a flip
\* that issued composite draws are these when it returns, whatever the
\* application had bound before.
C34_CompositeLeavesDefaults ==
    [][(last'.op = "flip" /\ Count(events', IsBlip) > 0) =>
          /\ \A i \in 1..Len(events') :
                IsBlip(events'[i]) =>
                   /\ BoundAfter(SubSeq(events', 1, i), boundFbo) = "default"
                   /\ ResetByBlip(SubSeq(events', 1, i), activeProgram) = "none"
                   /\ ResetByBlip(SubSeq(events', 1, i), boundVao) = "none"
          /\ boundFbo' = "default"
          /\ activeProgram' = "none"
          /\ boundVao' = "none"]_vars

\* A 'sequential' frame: two composite draws, and the defaults after it.
C34_Witness ==
    /\ last.op = "flip" /\ last.before = "sequential"
    /\ Count(events, IsBlip) = 2
    /\ boundFbo = "default" /\ activeProgram = "none" /\ boundVao = "none"

(***************************************************************************)
(* flip() with a flip callback that acts on the window.  The callback runs *)
(* inside flip(), between its statements; what it does at the invocation   *)
(* tagged b.eye is b.does: "return" (nothing), "raise" (an exception of    *)
(* its own), or the name of a mode it assigns to win.stereoMode.  flip()   *)
(* holds no copy of the mode: every statement reads self.stereoMode anew.  *)
(*   lookup     self._stereoShaders[self.stereoMode] in _blipEyeBuffer;    *)
(*              arg is the mode looked up                                  *)
(*   assign     win.stereoMode = arg, from inside the callback             *)
(*   raise      the callback raises                                        *)
(***************************************************************************)
CallbackModes == {"sequential", "dual-head"}

AssignedModes == {"left/right", "none", "dual-head"}

Behaviours == [eye : Eyes, does : {"return", "raise"} \cup AssignedModes]

\* The mode has an entry in self._stereoShaders.
HasShader(mode) == mode \in ShaderModes

\* flip() so far: the calls made, self._stereoMode, and the exception that
\* is propagating ("" if none).
Running(evs, mode) == [evs |-> evs, mode |-> mode, err |-> ""]

\* Statements that cannot fail.
Then(st, evs) == IF st.err # "" THEN st ELSE [st EXCEPT !.evs = @ \o evs]

\* _blipEyeBuffer(eye): the default framebuffer is bound and the tests are
\* disabled, then the program of the mode the window has now is looked up;
\* a mode without an entry raises KeyError before anything is drawn.
BlipCall(st, eye) ==
    IF st.err # "" THEN st
    ELSE IF HasShader(st.mode)
         THEN [st EXCEPT !.evs = @ \o <<Ev("bind", "default"), Ev("lookup", st.mode),
                                         EvBlip(eye, StereoShaders(st.mode))>>]
         ELSE [st EXCEPT !.evs = @ \o <<Ev("bind", "default"), Ev("lookup", st.mode)>>,
                         !.err = "KeyError"]

\* `if self.flipCallback is not None: self.flipCallback(eye=eye)`.  An
\* exception of the callback, the setter's ValueError included, propagates
\* out of flip().
CallbackCall(st, cb, b, eye) ==
    IF st.err # "" \/ ~cb THEN st
    ELSE LET called == [st EXCEPT !.evs = @ \o <<Ev("callback", eye)>>]
         IN  CASE b.eye # eye \/ b.does = "return" -> called
               [] b.does = "raise" ->
                     [called EXCEPT !.evs = @ \o <<Ev("raise", "callback")>>,
                                    !.err = "CallbackError"]
               [] SetterRaises(st.mode, b.does) ->
                     [called EXCEPT !.evs = @ \o <<Ev("assign", b.does)>>,
                                    !.err = "ValueError"]
               [] OTHER ->
                     [called EXCEPT !.evs = @ \o <<Ev("assign", b.does)>>,
                                    !.mode = b.does]

\* flip() entered in 'sequential' mode: the elif chain is taken once, on
\* the mode at entry; _blipEyeBuffer('right') and the test before the
\* callback tagged 'right' read self.stereoMode as the callback left it.
SequentialRun(cb, n, b) ==
    LET s1 == BlipCall(Running(ExecuteAutoDraw(n), "sequential"), "left")
        s2 == Then(s1, DrawBlueLine("left") \o BaseFlip(0, "primary"))
        s3 == CallbackCall(s2, cb, b, "left")
        s4 == BlipCall(s3, "right")
        s5 == Then(s4, DrawBlueLine("right") \o BaseFlip(0, "primary"))
    IN  IF s5.mode = "sequential" THEN CallbackCall(s5, cb, b, "right") ELSE s5

\* flip() entered in 'dual-head' mode.
DualHeadRun(cb, n, b) ==
    LET s1 == BlipCall(Running(ExecuteAutoDraw(n), "dual-head"), "left")
        s2 == Then(s1, DrawBlueLine("left") \o BaseFlip(0, "primary"))
        s3 == CallbackCall(s2, cb, b, "left")
        s4 == BlipCall(Then(s3, <<Ev("current", "win2")>>), "right")
        s5 == Then(s4, DrawBlueLine("right") \o BaseFlip(0, "secondary"))
        s6 == CallbackCall(s5, cb, b, "right")
    IN  Then(s6, <<Ev("current", "primary")>>)

\* self._toDraw when flip() is left: `self._toDraw = backup` is the last
\* statement before the return and is not reached by an exception.
ToDrawAfterRun(run, registered) == IF run.err = "" THEN registered ELSE 0

\* The colour each composite draw wrote, by the program looked up for it.
FrameOfRun(evs, t, ct, uniforms) ==
    LET at == SelectSeq([i \in 1..Len(evs) |-> i], LAMBDA i : evs[i].kind = "blip")
    IN  [k \in 1..Len(at) |->
            [eye |-> evs[at[k]].arg,
             rgb |-> BlipColour(evs[at[k] - 1].arg, evs[at[k]].arg, t, ct, uniforms),
             bound |-> BlipBindings(evs[at[k] - 1].arg, evs[at[k]].arg, ct)]]

\* win.flip() on a window in 'sequential' or 'dual-head' mode whose
\* callback behaves as b.
FlipCalling(b) ==
    /\ stereoMode \in CallbackModes
    /\ LET run == IF stereoMode = "sequential"
                  THEN SequentialRun(flipCallback, toDraw, b)
                  ELSE DualHeadRun(flipCallback, toDraw, b)
       IN  /\ events' = run.evs
           /\ stereoMode' = run.mode
           /\ toDraw' = ToDrawAfterRun(run, toDraw)
           /\ last' = Outcome("flip", b.does, run.err, stereoMode)
           /\ flipTime' = IF run.err = "" THEN FlipTime(run.evs, waitBlanking) ELSE NoTime
           /\ glTests' = IF run.err = "KeyError" THEN NoTests
                         ELSE TestsAfter(run.evs, glTests, testFlags)
    /\ boundFbo' = BoundAfter(events', boundFbo)
    /\ frame' = FrameOfRun(events', tex, crossTalk, ctUniform)
    /\ activeProgram' = ResetByBlip(events', activeProgram)
    /\ boundVao' = ResetByBlip(events', boundVao)
    /\ UNCHANGED <<ctorMode, flipCallback, size, fixation>>
    /\ UNCHANGED <<ctVars, tex, envVars>>

(***************************************************************************)
(* SpecCb: windows in 'sequential' and 'dual-head' mode, with and without  *)
(* a callback, stimuli registered for auto-draw, and callbacks that        *)
(* return, raise, or assign the window's mode at either invocation.        *)
(***************************************************************************)
InitCb ==
    /\ InitWindow(CallbackModes, {<<MaxW, MaxH>>}, BOOLEAN, Blank)
    /\ InitEnv(BOOLEAN)

NextCb ==
    \/ \E b \in Behaviours : FlipCalling(b)
    \/ Flip
    \/ \E delta \in {-1, 1} : SetAutoDraw(delta)
    \/ \E mode \in {"sequential", "top/bottom"} : SetStereoMode(mode)

SpecCb == InitCb /\ [][NextCb]_vars

\* The application's callback was invoked with this eye tag.
Invoked(evs, eye) == \E i \in 1..Len(evs) : evs[i].kind = "callback" /\ evs[i].arg = eye

\* C35: in 'sequential' mode, whenever flip() invokes the callback with
\* 'left' it also invokes it with 'right' and performs both swaps before
\* returning, even when the callback itself assigns a different (mutable)
\* stereo mode while it runs.
C35_BothHalvesSignalled ==
    (/\ last.op = "flip" /\ last.before = "sequential"
     /\ last.arg \notin {"raise"} \cup FixedModes
     /\ Invoked(events, "left")) =>
        /\ Invoked(events, "right")
        /\ Count(events, IsSwap) = 2
        /\ last.err = ""

\* C36: whenever flip() issues a composite draw, the window's current
\* stereo mode has an entry in the mode-to-shader table, assignments made
\* from inside the flip callback between the two halves of a sequential
\* flip included.
C36_CompositeModeHasShader ==
    last.op = "flip" =>
        \A i \in 1..Len(events) : events[i].kind = "lookup" => HasShader(events[i].arg)

\* C37: if the flip callback raises during flip() in 'sequential' or
\* 'dual-head' mode, then when the error reaches the caller the auto-draw
\* registration has been restored to its pre-flip list and the primary
\* output's context is current.
C37_RaisingCallbackReleases ==
    [][(last'.op = "flip" /\ last'.arg = "raise" /\ last'.err = "CallbackError") =>
          /\ toDraw' = toDraw
          /\ CurrentAfter(events', "primary") = "primary"]_vars

(***************************************************************************)
(* crossTalk assignments that fail.  On a window constructed in            *)
(* 'quad-buffered' mode there is no self._stereoShaders; an array of shape *)
(* (1, 3) has no second row.                                               *)
(***************************************************************************)
\* [[r, g, b]]: the one row there is.
ArgRow(row) == [shape |-> "mat13", vec |-> <<Num(0), Num(0)>>, mat |-> [e \in 1..2 |-> row]]

\* win.crossTalk = [[r, g, b]].  The size is 3, so nothing is broadcast;
\* self._crossTalk[0] is assigned, then crossTalk[1] raises IndexError.
SetCrossTalkOneRow(row) ==
    /\ crossTalk' = [crossTalk EXCEPT ![1] = ClampRow(row)]
    /\ ctArg' = ArgRow(row)
    /\ events' = <<>>
    /\ last' = Outcome("crossTalk", "mat13", "IndexError", stereoMode)
    /\ frame' = <<>>
    /\ flipTime' = NoTime
    /\ UNCHANGED <<winVars, ctUniform, tex, glVars, envVars>>

InitCtErr ==
    /\ InitWindow({"top/bottom-anticross", "red/green-anticross", "quad-buffered"},
                  {<<MaxW, MaxH>>}, {FALSE}, Blank)
    /\ InitEnv({TRUE})

NextCtErr ==
    \/ SetCrossTalk(ArgNone)
    \/ \E a \in PixCoefs, b \in PixCoefs : SetCrossTalk(ArgVec(a, b))
    \/ \E m \in [1..2 -> UniRows] : SetCrossTalk(ArgMat(m))
    \/ \E row \in UniRows : SetCrossTalkOneRow(row)
    \/ Flip

SpecCtErr == InitCtErr /\ [][NextCtErr]_vars

\* C38: a crossTalk assignment is all-or-nothing: if it fails (on a window
\* constructed in 'quad-buffered' mode, or for an input with fewer than two
\* rows), the stored coefficient matrix is unchanged.
C38_FailedAssignmentStoresNothing ==
    [][(last'.op = "crossTalk" /\ last'.err # "") => crossTalk' = crossTalk]_vars


====
